---- MODULE Spec2Model ----
(***************************************************************************)
(* BroadbandView: the ingestion pipeline (runPipeline, finishPipeline) and *)
(* the tiered resolver (POST /api/lookup, lookupProviders) over the shared *)
(* PostgreSQL state: data_vintages, broadband_availability, the            *)
(* materialized view block_availability, geocode_cache, and the in-process *)
(* LRU lookupCache.                                                        *)
(*                                                                         *)
(* The pipeline's client.query calls are separate auto-committed           *)
(* statements (no BEGIN/COMMIT in the scripts), so every statement is one  *)
(* action and any statement may fail, ending the run where it stands.      *)
(***************************************************************************)
EXTENDS Integers, Sequences, FiniteSets, TLC

VARIABLES
    dataVintages,           \* table data_vintages: vintage_id -> row
    broadbandAvailability,  \* table broadband_availability: <<vintage, file>> -> times imported
    blockAvailability,      \* materialized view block_availability
    geocodeCache,           \* table geocode_cache: normalized address -> entry or none
    lookupCache,            \* the API process's LRU cache, most recently used first
    pl,                     \* the pipeline process (runPipeline or finishPipeline)
    pre,                    \* history: is_active flags and view as the current run found them
    runs,                   \* number of pipeline processes started so far
    rq,                     \* the resolve request in flight (POST /api/lookup) and its response
    served,                 \* number of resolve requests received so far
    disk,                   \* the download directory: the local copies, by file name
    acq,                    \* the pipeline process in steps 1 and 2, file by file
    ing,                    \* one importStateData call, row by row
    clock,                  \* the API process's time, and when each cache entry was set
    idx,                    \* the last two getH3Index calls of the route
    enr                     \* the last two rows a query passed to enrichRow

storeVars == <<dataVintages, broadbandAvailability, blockAvailability>>
pipelineVars == <<pl, pre, runs>>
resolverVars == <<geocodeCache, lookupCache, rq, served>>
acquireVars == <<disk, acq>>
ingestVars == <<ing>>
timeVars == <<clock>>
indexerVars == <<idx>>
enrichVars == <<enr>>

-----------------------------------------------------------------------------
(* Bounds *)

NumVintages == 2    \* release ids 1..NumVintages; a greater id is a later date string
NumFiles == 2       \* per-technology files of one release
MaxRuns == 2        \* pipeline processes started in one behaviour

Vintages == 1..NumVintages
Files == 1..NumFiles
NoVintage == 0

-----------------------------------------------------------------------------
(* The upstream data: rows of the per-technology CSV files *)

HexA == <<1, 0>>
HexB == <<2, 0>>
HexFar == <<9, 9>>
NoHex == <<>>

Row(h3, geoid, pid, pname, tech, dl, ul, ll, brc) ==
    [h3 |-> h3, geoid |-> geoid, pid |-> pid, pname |-> pname, tech |-> tech,
     dl |-> dl, ul |-> ul, ll |-> ll, brc |-> brc]

\* File 1 is the Fiber file (technology 50), file 2 the Cable file (40).
\* Releases beyond the second repeat the second one's rows.
FileRows(v, f) ==
    IF v = 1 /\ f = 1 THEN
        { Row(HexA, "b1", "p1", "Alpha", 50, 100, 100, TRUE, "R"),
          Row(HexA, "b1", "p1", "Alpha", 50, 250, 20, FALSE, "R"),
          Row(HexA, "b1", "p9", "Biz", 50, 1000, 1000, TRUE, "B") }
    ELSE IF v = 1 /\ f = 2 THEN
        { Row(HexA, "b1", "p2", "Beta", 40, 200, 10, TRUE, "X"),
          Row(HexA, "b3", "p2", "Beta", 40, 300, 30, TRUE, "R"),
          Row(HexFar, "b2", "p2", "Beta", 40, 200, 10, TRUE, "R"),
          Row(NoHex, "", "p2", "Beta", 40, 50, 5, TRUE, "R") }
    ELSE IF f = 1 THEN
        { Row(HexA, "b1", "p1", "Alpha", 50, 500, 500, TRUE, "R") }
    ELSE
        { Row(HexA, "b1", "p3", "Gamma", 40, 500, 50, TRUE, "R"),
          Row(HexB, "b2", "p2", "Beta", 40, 100, 10, FALSE, "R") }

\* What a downloaded archive may hold: the release's rows or, for the first
\* file of the newest release (published before its data is complete), no
\* data row.
FileContents(v, f) ==
    IF v = NumVintages /\ f = 1 THEN { FileRows(v, f), {} } ELSE { FileRows(v, f) }

SetMax(S) == CHOOSE x \in S : \A y \in S : y <= x

-----------------------------------------------------------------------------
(* Ingest Transform *)

\* Rows missing both block id and cell id are dropped.
ValidRow(r) == ~(r.geoid = "" /\ r.h3 = NoHex)

ImportedRows(content) == { r \in content : ValidRow(r) }

\* importStateData: the valid rows are copied into broadband_availability
\* tagged with the release; returns the table and the number of rows written.
ImportStateData(raw, v, f, content) ==
    LET n == Cardinality(ImportedRows(content)) IN
    [table |-> IF n > 0 THEN [raw EXCEPT ![<<v, f>>] = @ + 1] ELSE raw,
     count |-> n]

\* The rows of broadband_availability, each with its data_vintage.
TableRows(raw) ==
    UNION { { [row |-> r, data_vintage |-> k[1]] : r \in ImportedRows(FileRows(k[1], k[2])) }
            : k \in { x \in DOMAIN raw : raw[x] > 0 } }

RECURSIVE SumCounts(_, _)
SumCounts(raw, keys) ==
    IF keys = {} THEN 0
    ELSE LET k == CHOOSE x \in keys : TRUE IN
         raw[k] * Cardinality(ImportedRows(FileRows(k[1], k[2])))
         + SumCounts(raw, keys \ {k})

\* SELECT COUNT(*) FROM broadband_availability WHERE data_vintage = v
CountRows(raw, v) == SumCounts(raw, { k \in DOMAIN raw : k[1] = v })

-----------------------------------------------------------------------------
(* data_vintages *)

NoRow == [created |-> 0, is_active |-> FALSE, record_count |-> <<>>]

Present(dv, v) == dv[v].created > 0

ActiveRows(dv) == { v \in Vintages : Present(dv, v) /\ dv[v].is_active }

\* SELECT ... WHERE is_active = true ORDER BY created_at DESC LIMIT 1
ActiveVintage(dv) ==
    IF ActiveRows(dv) = {} THEN NoVintage
    ELSE CHOOSE v \in ActiveRows(dv) :
            \A w \in ActiveRows(dv) : dv[w].created <= dv[v].created

NextCreated(dv) == Cardinality({ v \in Vintages : Present(dv, v) }) + 1

\* Mutant: the row is inserted, or updated, with is_active = true.
MarkImportStartedActive(dv, v) ==
    [dv EXCEPT ![v] = [created |-> IF Present(dv, v) THEN @.created ELSE NextCreated(dv),
                       is_active |-> TRUE, record_count |-> @.record_count]]

\* INSERT ... VALUES (v, ..., NOW(), false) ON CONFLICT (vintage_id) DO UPDATE
\*   SET import_started_at = NOW()
MarkImportStarted(dv, v) ==
    IF Present(dv, v) THEN dv
    ELSE [dv EXCEPT ![v] = [created |-> NextCreated(dv), is_active |-> FALSE,
                            record_count |-> <<>>]]

\* Mutant: the UPDATE reaches only the newest row.
DeactivateNewestOnly(dv) ==
    [v \in Vintages |->
        IF Present(dv, v) /\ dv[v].created = SetMax({ dv[w].created : w \in Vintages })
        THEN [dv[v] EXCEPT !.is_active = FALSE]
        ELSE dv[v]]

\* UPDATE data_vintages SET is_active = false
DeactivateAllRows(dv) ==
    [v \in Vintages |-> IF Present(dv, v) THEN [dv[v] EXCEPT !.is_active = FALSE]
                        ELSE dv[v]]

\* UPDATE data_vintages SET record_count = n, is_active = true, ... WHERE vintage_id = v
UpdateActive(dv, v, n) ==
    IF Present(dv, v)
    THEN [dv EXCEPT ![v] = [@ EXCEPT !.is_active = TRUE, !.record_count = <<n>>]]
    ELSE dv

\* Mutant: the statement records the count and leaves is_active as it is.
UpsertCountOnly(dv, v, n) ==
    IF Present(dv, v) THEN [dv EXCEPT ![v].record_count = <<n>>]
    ELSE [dv EXCEPT ![v] = [created |-> NextCreated(dv), is_active |-> FALSE,
                            record_count |-> <<n>>]]

\* INSERT ... VALUES (v, ..., n, ..., true) ON CONFLICT (vintage_id) DO UPDATE
\*   SET record_count = n, is_active = true, ...
UpsertActive(dv, v, n) ==
    IF Present(dv, v) THEN UpdateActive(dv, v, n)
    ELSE [dv EXCEPT ![v] = [created |-> NextCreated(dv), is_active |-> TRUE,
                            record_count |-> <<n>>]]

-----------------------------------------------------------------------------
(* block_availability *)

\* The GROUP BY columns. brand_name is left out of the rows: no query of the
\* resolver reads it, and it is constant per provider in the data below.
GroupKey(t) ==
    [h3 |-> t.row.h3, geoid |-> t.row.geoid, pid |-> t.row.pid,
     pname |-> t.row.pname, tech |-> t.row.tech, data_vintage |-> t.data_vintage]

\* SELECT ..., MAX(max_download_speed), MAX(max_upload_speed), BOOL_OR(low_latency), data_vintage
\* FROM broadband_availability
\* WHERE business_residential_code IN ('R','X') AND data_vintage = v
\* GROUP BY h3_res8_id, block_geoid, provider_id, provider_name, brand_name,
\*          technology_code, data_vintage
SelectAggregate(raw, v) ==
    LET src == { t \in TableRows(raw) :
                    t.row.brc \in {"R", "X"} /\ t.data_vintage = v }
        grp(k) == { t \in src : GroupKey(t) = k }
    IN  { [h3 |-> k.h3, geoid |-> k.geoid, pid |-> k.pid, pname |-> k.pname,
           tech |-> k.tech, data_vintage |-> k.data_vintage,
           dl |-> SetMax({ t.row.dl : t \in grp(k) }),
           ul |-> SetMax({ t.row.ul : t \in grp(k) }),
           ll |-> \E t \in grp(k) : t.row.ll]
          : k \in { GroupKey(t) : t \in src } }

NoRows == [k \in Vintages \X Files |-> 0]

\* built and from are history: the release named in the CREATE statement and
\* broadband_availability as that statement read it.
NoView == [exists |-> FALSE, rows |-> {}, built |-> NoVintage, from |-> NoRows,
           indexes |-> {}]

\* Mutant: the view becomes visible when only the first file's rows are in it.
CreateHalfBuiltView(raw, v) ==
    [exists |-> TRUE,
     rows |-> SelectAggregate([k \in DOMAIN raw |-> IF k[2] = 1 THEN raw[k] ELSE 0], v),
     built |-> v, from |-> raw, indexes |-> {}]

\* CREATE MATERIALIZED VIEW block_availability AS SELECT ... (one statement)
CreateMaterializedView(raw, v) ==
    [exists |-> TRUE, rows |-> SelectAggregate(raw, v), built |-> v, from |-> raw,
     indexes |-> {}]

\* The migration's CREATE MATERIALIZED VIEW IF NOT EXISTS, on the empty database:
\* the sub-select for the active vintage finds no row, so the view is empty.
InitialView ==
    [exists |-> TRUE, rows |-> {}, built |-> NoVintage, from |-> NoRows,
     indexes |-> {"idx_mv_h3_provider", "idx_mv_h3", "idx_mv_geoid"}]

IndexNames == <<"idx_mv_h3_provider", "idx_mv_h3", "idx_mv_geoid">>

\* The Aggregate View as the data model defines it, for reference: one row per
\* (cell, block, provider, technology) of the release's residential or
\* mixed-use rows, with the greatest speeds and the OR of the low-latency flags.
SameGroup(a, b) ==
    /\ a.h3 = b.h3 /\ a.geoid = b.geoid /\ a.pid = b.pid
    /\ a.pname = b.pname /\ a.tech = b.tech

CompleteAggregate(raw, v) ==
    LET rows == { t.row : t \in { x \in TableRows(raw) :
                                    x.data_vintage = v /\ x.row.brc # "B" } }
        peers(r) == { x \in rows : SameGroup(x, r) }
    IN  { [h3 |-> r.h3, geoid |-> r.geoid, pid |-> r.pid, pname |-> r.pname,
           tech |-> r.tech, data_vintage |-> v,
           dl |-> SetMax({ x.dl : x \in peers(r) }),
           ul |-> SetMax({ x.ul : x \in peers(r) }),
           ll |-> (TRUE \in { x.ll : x \in peers(r) })] : r \in rows }

-----------------------------------------------------------------------------
(* Vintage Discovery: checkAvailableVintages *)

MaxCatalog == 2     \* entries in one listAsOfDates response

\* The as_of_date string of a release as its sequence of digits ("2024-06-30",
\* "2024-12-31", "2025-06-30", ...), the dashes left out.
AsOfDate(v) ==
    <<2, 0, 2, 4 + (v - 1) \div 2>>
    \o (IF v % 2 = 1 THEN <<0, 6, 3, 0>> ELSE <<1, 2, 3, 1>>)

VintageOf(date) == CHOOSE v \in Vintages : AsOfDate(v) = date

AsOfDateEntries ==
    [data_type : {"availability", "challenge"},
     as_of_date : { AsOfDate(v) : v \in Vintages }]

\* A body whose data field is not an array.
NotAnArray == [isArray |-> FALSE, data |-> <<>>]

\* The bodies listAsOfDates may answer with.
Catalogs ==
    { [isArray |-> TRUE, data |-> d] :
        d \in UNION { [1..n -> AsOfDateEntries] : n \in 0..MaxCatalog } }
    \cup {NotAnArray}

\* The comparison of Array.prototype.sort() without a comparator: the strings
\* by their code units.
RECURSIVE LexLess(_, _)
LexLess(a, b) ==
    IF a = <<>> THEN b # <<>>
    ELSE IF b = <<>> THEN FALSE
    ELSE IF Head(a) # Head(b) THEN Head(a) < Head(b)
    ELSE LexLess(Tail(a), Tail(b))

RECURSIVE InsertSorted(_, _)
InsertSorted(x, s) ==
    IF s = <<>> THEN <<x>>
    ELSE IF LexLess(x, Head(s)) THEN <<x>> \o s
    ELSE <<Head(s)>> \o InsertSorted(x, Tail(s))

RECURSIVE Sort(_)
Sort(s) ==
    IF s = <<>> THEN <<>>
    ELSE InsertSorted(s[Len(s)], Sort(SubSeq(s, 1, Len(s) - 1)))

Reverse(s) == [i \in 1..Len(s) |-> s[Len(s) + 1 - i]]

\* Mutant: the entries of every data_type are kept.
AnyDataType(d) == TRUE

\* (d) => d.data_type === "availability"
IsAvailability(d) == d.data_type = "availability"

\* The value returned for a 2xx response with body data.
checkAvailableVintages(data) ==
    IF ~data.isArray THEN <<>>
    ELSE LET kept == SelectSeq(data.data, IsAvailability)
         IN  Reverse(Sort([i \in 1..Len(kept) |-> kept[i].as_of_date]))

\* Mutant: the status of the response is not looked at.
IgnoreStatus(ok, data) ==
    [threw |-> FALSE, vintages |-> checkAvailableVintages(data)]

\* The call with its failure: a non-2xx response throws (lines 20-22), and so
\* does a fetch that is rejected.
ListAsOfDates(ok, data) ==
    IF ok THEN [threw |-> FALSE, vintages |-> checkAvailableVintages(data)]
    ELSE [threw |-> TRUE, vintages |-> <<>>]

-----------------------------------------------------------------------------
(* The pipeline process *)

RECURSIVE SortedSeq(_)
SortedSeq(S) ==
    IF S = {} THEN <<>>
    ELSE LET m == CHOOSE x \in S : \A y \in S : x <= y IN
         <<m>> \o SortedSeq(S \ {m})

\* catalog is history: whether the run's listAsOfDates call succeeded.
IdlePipeline ==
    [pc |-> "idle", kind |-> "none", catalog |-> "none", vintage |-> NoVintage,
     zipFiles |-> <<>>, next |-> 1, totalRows |-> 0, indexed |-> 0, at |-> "none"]

Snapshot == [flags |-> [v \in Vintages |-> dataVintages[v].is_active],
             active |-> ActiveVintage(dataVintages),
             view |-> blockAvailability,
             table |-> broadbandAvailability,
             rows |-> { v \in Vintages : Present(dataVintages, v) }]

\* The process exits (process.exit(1), or the end of the script): its locals
\* are gone; at stays as history of the step it ended in.
Exit(p, pc, at) == [IdlePipeline EXCEPT !.pc = pc, !.at = at]

\* A new runPipeline process is started (npm run pipeline).
StartRun ==
    /\ pl.pc \in {"idle", "done", "failed"}
    /\ runs < MaxRuns
    /\ pl' = [IdlePipeline EXCEPT !.pc = "checkVintages", !.kind = "run"]
    /\ pre' = Snapshot
    /\ runs' = runs + 1
    /\ UNCHANGED <<storeVars, resolverVars, acquireVars, ingestVars, timeVars, indexerVars, enrichVars>>

\* The listAsOfDates body that lists the releases S, oldest first, as
\* availability entries.
Published(S) ==
    [isArray |-> TRUE,
     data |-> [i \in 1..Cardinality(S) |->
                  [data_type |-> "availability", as_of_date |-> AsOfDate(SortedSeq(S)[i])]]]

\* checkAvailableVintages: newest first; throws when the catalog call fails.
\* runPipeline exits when the list is empty and takes vintages[0] otherwise.
\* (AcquireVintages is the same step over every body of Catalogs.)
CheckVintages ==
    /\ pl.pc = "checkVintages"
    /\ \E ok \in BOOLEAN, listed \in SUBSET Vintages :
          LET data == Published(listed)
              res == ListAsOfDates(ok, data) IN
          pl' = IF res.threw THEN Exit(pl, "failed", "catalog")
                ELSE IF Len(res.vintages) = 0 THEN Exit(pl, "failed", "checkVintages")
                ELSE [pl EXCEPT !.pc = "download",
                                !.catalog = IF ok THEN "ok" ELSE "failed",
                                !.vintage = VintageOf(res.vintages[1])]
    /\ UNCHANGED <<storeVars, pre, runs, resolverVars, acquireVars, ingestVars, timeVars, indexerVars, enrichVars>>

\* downloadStateData: the paths of the files acquired; runPipeline exits on none.
DownloadStateData ==
    /\ pl.pc = "download"
    /\ \E got \in SUBSET Files :
          pl' = IF got # {}
                THEN [pl EXCEPT !.pc = "markStarted", !.zipFiles = SortedSeq(got)]
                ELSE Exit(pl, "failed", "download")
    /\ UNCHANGED <<storeVars, pre, runs, resolverVars, acquireVars, ingestVars, timeVars, indexerVars, enrichVars>>

MarkStarted ==
    /\ pl.pc = "markStarted"
    /\ dataVintages' = MarkImportStarted(dataVintages, pl.vintage)
    /\ pl' = [pl EXCEPT !.pc = "import"]
    /\ UNCHANGED <<broadbandAvailability, blockAvailability, pre, runs, resolverVars, acquireVars, ingestVars, timeVars, indexerVars, enrichVars>>

\* Where the for loop over zipFiles goes once it has handled every file.
AfterImport(p) == "deactivate"

\* One iteration of the for loop over zipFiles.
ImportFile ==
    /\ pl.pc = "import"
    /\ pl.next <= Len(pl.zipFiles)
    /\ \E content \in FileContents(pl.vintage, pl.zipFiles[pl.next]) :
          LET res == ImportStateData(broadbandAvailability, pl.vintage,
                                     pl.zipFiles[pl.next], content)
              p == [pl EXCEPT !.next = @ + 1, !.totalRows = @ + res.count]
          IN  /\ broadbandAvailability' = res.table
              /\ pl' = IF p.next > Len(p.zipFiles)
                       THEN [p EXCEPT !.pc = AfterImport(p)]
                       ELSE p
    /\ UNCHANGED <<dataVintages, blockAvailability, pre, runs, resolverVars, acquireVars, ingestVars, timeVars, indexerVars, enrichVars>>

\* A new finishPipeline process is started for a release given on the command line.
StartFinish ==
    /\ pl.pc \in {"idle", "done", "failed"}
    /\ runs < MaxRuns
    /\ \E v \in Vintages :
          pl' = [IdlePipeline EXCEPT !.pc = "count", !.kind = "finish", !.vintage = v]
    /\ pre' = Snapshot
    /\ runs' = runs + 1
    /\ UNCHANGED <<storeVars, resolverVars, acquireVars, ingestVars, timeVars, indexerVars, enrichVars>>

\* finishPipeline counts the release's rows and exits when there are none.
CountImported ==
    /\ pl.pc = "count"
    /\ LET n == CountRows(broadbandAvailability, pl.vintage) IN
       pl' = IF n = 0 THEN Exit(pl, "failed", "count")
             ELSE [pl EXCEPT !.pc = "deactivate", !.totalRows = n]
    /\ UNCHANGED <<storeVars, pre, runs, resolverVars, acquireVars, ingestVars, timeVars, indexerVars, enrichVars>>

\* Step 4, first statement (both scripts).
DeactivateAll ==
    /\ pl.pc = "deactivate"
    /\ dataVintages' = DeactivateAllRows(dataVintages)
    /\ pl' = [pl EXCEPT !.pc = "activate"]
    /\ UNCHANGED <<broadbandAvailability, blockAvailability, pre, runs, resolverVars, acquireVars, ingestVars, timeVars, indexerVars, enrichVars>>

\* Step 4, second statement of runPipeline.
Activate ==
    /\ pl.pc = "activate"
    /\ pl.kind = "run"
    /\ dataVintages' = UpdateActive(dataVintages, pl.vintage, pl.totalRows)
    /\ pl' = [pl EXCEPT !.pc = "dropView"]
    /\ UNCHANGED <<broadbandAvailability, blockAvailability, pre, runs, resolverVars, acquireVars, ingestVars, timeVars, indexerVars, enrichVars>>

\* Step 4, second statement of finishPipeline.
FinishActivate ==
    /\ pl.pc = "activate"
    /\ pl.kind = "finish"
    /\ dataVintages' = UpsertActive(dataVintages, pl.vintage, pl.totalRows)
    /\ pl' = [pl EXCEPT !.pc = "dropView"]
    /\ UNCHANGED <<broadbandAvailability, blockAvailability, pre, runs, resolverVars, acquireVars, ingestVars, timeVars, indexerVars, enrichVars>>

\* DROP MATERIALIZED VIEW IF EXISTS block_availability
DropView ==
    /\ pl.pc = "dropView"
    /\ blockAvailability' = NoView
    /\ pl' = [pl EXCEPT !.pc = "createView"]
    /\ UNCHANGED <<dataVintages, broadbandAvailability, pre, runs, resolverVars, acquireVars, ingestVars, timeVars, indexerVars, enrichVars>>

CreateView ==
    /\ pl.pc = "createView"
    /\ blockAvailability' = CreateMaterializedView(broadbandAvailability, pl.vintage)
    /\ pl' = [pl EXCEPT !.pc = "createIndex"]
    /\ UNCHANGED <<dataVintages, broadbandAvailability, pre, runs, resolverVars, acquireVars, ingestVars, timeVars, indexerVars, enrichVars>>

\* The three CREATE INDEX statements, one per step.
CreateIndex ==
    /\ pl.pc = "createIndex"
    /\ blockAvailability' =
          [blockAvailability EXCEPT !.indexes = @ \cup {IndexNames[pl.indexed + 1]}]
    /\ pl' = IF pl.indexed + 1 = Len(IndexNames) THEN Exit(pl, "done", "none")
             ELSE [pl EXCEPT !.indexed = @ + 1]
    /\ UNCHANGED <<dataVintages, broadbandAvailability, pre, runs, resolverVars, acquireVars, ingestVars, timeVars, indexerVars, enrichVars>>

StatementPcs ==
    {"markStarted", "import", "count", "deactivate", "activate",
     "dropView", "createView", "createIndex"}

\* A statement (or importStateData) throws, or the process dies: the error
\* reaches runPipeline().catch / finishPipeline().catch and the process exits
\* with the database as the statements so far left it.
StatementFails ==
    /\ pl.pc \in StatementPcs
    /\ pl' = Exit(pl, "failed", pl.pc)
    /\ UNCHANGED <<storeVars, pre, runs, resolverVars, acquireVars, ingestVars, timeVars, indexerVars, enrichVars>>

PipelineStep ==
    \/ StartRun
    \/ CheckVintages
    \/ DownloadStateData
    \/ MarkStarted
    \/ ImportFile
    \/ StartFinish
    \/ CountImported
    \/ DeactivateAll
    \/ Activate
    \/ FinishActivate
    \/ DropView
    \/ CreateView
    \/ CreateIndex
    \/ StatementFails

-----------------------------------------------------------------------------
(* Spatial Indexer and the external Census geocoder *)

H3_RESOLUTION == 8

\* h3-js latLngToCell, as a grid: coordinates in one square of side res share a cell.
latLngToCell(lat, lng, res) == <<lat \div res, lng \div res>>

\* Mutant: the index is taken at a coarser resolution.
CoarserIndex(lat, lng) == latLngToCell(lat, lng, 2 * H3_RESOLUTION)

getH3Index(lat, lng) == latLngToCell(lat, lng, H3_RESOLUTION)

\* address.toLowerCase().trim(); the sha256 of it is the cache key.
Normalize(address) == IF address = " A1 " THEN "a1" ELSE address

\* What the Census geocoder knows: the block at a coordinate ("" when none) ...
BlockAt(lat, lng) ==
    IF getH3Index(lat, lng) = HexA THEN "b1"
    ELSE IF getH3Index(lat, lng) = HexB THEN "b2"
    ELSE ""

\* ... and the coordinates of an address.
AddressMatch(address) == [lat |-> 20, lng |-> 5]

\* The answers of the Census geocoder to one HTTP call: a non-2xx status, no
\* answer within the 10 s of AbortSignal.timeout, a body that is not the JSON
\* expected, a well-formed body without a match, or a match.
GeocoderFailures == {"non2xx", "timeout", "malformed", "empty"}

\* Mutant: the catch block rethrows.
Rethrow == "throw"

\* catch { return null; }
Catch == "null"

\* The try block around the HTTP call, the same in both functions: what the
\* function does with the answer.
Fetch(answer) ==
    IF answer = "non2xx" THEN "null"
    ELSE IF answer \in {"timeout", "malformed"} THEN Catch
    ELSE IF answer = "empty" THEN "null"
    ELSE "result"

NoEntry == [cached |-> FALSE, lat |-> 0, lng |-> 0, block_geoid |-> "", match_type |-> ""]

\* Mutant: nothing is written to geocode_cache.
InsertGeocodeNothing(gc, address, lat, lng, geoid, matchType) == gc

\* Mutant: ON CONFLICT DO UPDATE.
UpsertGeocode(gc, address, lat, lng, geoid, matchType) ==
    [gc EXCEPT ![Normalize(address)] =
        [cached |-> TRUE, lat |-> lat, lng |-> lng,
         block_geoid |-> geoid, match_type |-> matchType]]

\* db.insert(geocodeCache).values(...).onConflictDoNothing()
InsertGeocode(gc, address, lat, lng, geoid, matchType) ==
    IF gc[Normalize(address)].cached THEN gc
    ELSE [gc EXCEPT ![Normalize(address)] =
             [cached |-> TRUE, lat |-> lat, lng |-> lng,
              block_geoid |-> geoid, match_type |-> matchType]]

-----------------------------------------------------------------------------
(* Result Cache: lru-cache, most recently used entry first *)

CacheMax == 1

CacheHas(cache, key) == \E i \in 1..Len(cache) : cache[i].key = key

CacheIndex(cache, key) == CHOOSE i \in 1..Len(cache) : cache[i].key = key

Without(cache, key) == SelectSeq(cache, LAMBDA e : e.key # key)

\* lookupCache.get(key): the value, and the entry becomes the most recently used.
CacheGet(cache, key) ==
    IF CacheHas(cache, key)
    THEN [hit |-> TRUE, entry |-> cache[CacheIndex(cache, key)],
          cache |-> <<cache[CacheIndex(cache, key)]>> \o Without(cache, key)]
    ELSE [hit |-> FALSE, entry |-> [key |-> key, value |-> <<>>, built |-> NoVintage],
          cache |-> cache]

\* Mutant: when max is passed the entry used last before the set goes, not
\* the least recently used.
EvictNewest(put, max) == <<put[1]>> \o SubSeq(put, 3, max + 1)

\* lru-cache's eviction: the entries from the least recently used end go.
Evict(put, max) == SubSeq(put, 1, max)

\* set on a cache of the given max
CacheSetMax(cache, key, value, built, max) ==
    LET put == <<[key |-> key, value |-> value, built |-> built]>> \o Without(cache, key)
    IN  IF Len(put) > max THEN Evict(put, max) ELSE put

\* Mutant: nothing is stored.
CacheSetNothing(cache, key, value, built) == cache

\* lookupCache.set(key, value): the least recently used entry goes when max is passed.
\* built is history: the release of the view the value was read from.
CacheSet(cache, key, value, built) == CacheSetMax(cache, key, value, built, CacheMax)

-----------------------------------------------------------------------------
(* Availability Store queries *)

\* Mutant: the thresholds are exclusive.
getSpeedTierAbove(d) ==
    IF d > 1000 THEN "Gigabit+"
    ELSE IF d > 500 THEN "Very Fast"
    ELSE IF d > 100 THEN "Fast"
    ELSE IF d > 25 THEN "Good"
    ELSE "Basic"

getSpeedTier(d) ==
    IF d >= 1000 THEN "Gigabit+"
    ELSE IF d >= 500 THEN "Very Fast"
    ELSE IF d >= 100 THEN "Fast"
    ELSE IF d >= 25 THEN "Good"
    ELSE "Basic"

enrichRow(g) ==
    [provider_name |-> g.pname, technology_code |-> g.tech,
     max_download_speed |-> g.dl, max_upload_speed |-> g.ul,
     speed_tier |-> getSpeedTier(g.dl)]

\* Mutant: no GROUP BY, one result row per row of the view.
UngroupedRows(rows) ==
    { [pname |-> r.pname, tech |-> r.tech, dl |-> r.dl, ul |-> r.ul] : r \in rows }

\* GROUP BY provider_name, technology_code with MAX of both speeds.
GroupByProvider(rows) ==
    { [pname |-> k[1], tech |-> k[2],
       dl |-> SetMax({ r.dl : r \in { x \in rows : x.pname = k[1] /\ x.tech = k[2] } }),
       ul |-> SetMax({ r.ul : r \in { x \in rows : x.pname = k[1] /\ x.tech = k[2] } })]
      : k \in { <<r.pname, r.tech>> : r \in rows } }

\* ORDER BY max_download_speed DESC: every order PostgreSQL may return (ties are free).
OrderByDownload(groups) ==
    { s \in [1..Cardinality(groups) -> groups] :
        /\ \A i, j \in 1..Cardinality(groups) : i # j => s[i] # s[j]
        /\ \A i \in 1..Cardinality(groups) - 1 : s[i].dl >= s[i + 1].dl }

Enriched(s) == [i \in 1..Len(s) |-> enrichRow(s[i])]

\* queryByH3: the results the query may return on the view's rows.
queryByH3(rows, h3Index) ==
    { Enriched(s) : s \in OrderByDownload(GroupByProvider({ r \in rows : r.h3 = h3Index })) }

\* queryByGeoid
queryByGeoid(rows, geoid) ==
    { Enriched(s) : s \in OrderByDownload(GroupByProvider({ r \in rows : r.geoid = geoid })) }

-----------------------------------------------------------------------------
(* POST /api/lookup *)

MaxRequests == 2    \* resolve requests received in one behaviour

Absent == [t |-> "absent", v |-> 0]
Num(n) == [t |-> "number", v |-> n]
NotANumber == [t |-> "string", v |-> 0]
NoAddress == [t |-> "absent", s |-> ""]
Str(s) == [t |-> "string", s |-> s]

LatInputs == {Absent, Num(10), Num(20)}
LngInputs == {Absent, Num(5)}
AddressInputs == {NoAddress, Str("a1"), Str(" A1 ")}

\* The request bodies: coordinates alone, an address alone, one coordinate or
\* both with and without an address, bodies with an empty address, and bodies
\* with a latitude or longitude that is out of range or not a number.
Bodies ==
    [lat : LatInputs \ {Absent}, lng : LngInputs \ {Absent}, address : {NoAddress}]
    \cup [lat : {Absent}, lng : {Absent}, address : AddressInputs]
    \cup [lat : {Num(10)}, lng : LngInputs, address : {NoAddress, Str("a1")}]
    \cup [lat : {Absent}, lng : {Num(5)}, address : {NoAddress, Str("a1")}]
    \cup [lat : {Absent, Num(10)}, lng : {Absent}, address : {Str("")}]
    \cup [lat : {Num(100), NotANumber}, lng : {Num(5)}, address : {NoAddress, Str("a1")}]
    \cup [lat : {Num(10)}, lng : {Num(200)}, address : {NoAddress, Str("a1")}]
AddressKeys == {"", "a1"}

\* Mutant: the schema checks the types and not the ranges.
SchemaTypesOnly(lat, lng) ==
    /\ lat.t \in {"absent", "number"}
    /\ lng.t \in {"absent", "number"}

\* lookupSchema.safeParse(body).success
SchemaOk(lat, lng) ==
    /\ lat.t = "absent" \/ (lat.t = "number" /\ lat.v >= -90 /\ lat.v <= 90)
    /\ lng.t = "absent" \/ (lng.t = "number" /\ lng.v >= -180 /\ lng.v <= 180)

\* JavaScript truthiness of the optional address string
Truthy(address) == address.t = "string" /\ address.s # ""

\* Mutant: lat == null && lng == null
MissingBothCoordinates(lat, lng) == lat.t = "absent" /\ lng.t = "absent"

\* lat == null || lng == null
MissingCoordinates(lat, lng) == lat.t = "absent" \/ lng.t = "absent"

\* geocoder counts the HTTP calls to the Census geocoder (both endpoints),
\* byCoordinates those of them to the coordinates endpoint.
NoCalls == [geocoder |-> 0, byCoordinates |-> 0, cache |-> 0, store |-> 0]

\* No pipeline process is running.
Quiet == pl.pc \in {"idle", "done", "failed"}

\* History of the request's last query of the view: whether the view was
\* there, the rows that matched, the rows of the complete aggregate that match.
NoObservation ==
    [q |-> "none", missing |-> FALSE, got |-> {}, want |-> {}, built |-> NoVintage]

NoResponse ==
    [status |-> 0, success |-> FALSE, providers |-> <<>>, h3_index |-> NoHex,
     data_vintage |-> NoVintage, lookup_method |-> "", error |-> ""]

\* History of the request answered just before, kept when the new request has
\* the same body: its provider list, whether its lookupProviders call left the
\* list in the Result Cache, and its epoch.
NoPrevious == [same |-> FALSE, providers |-> <<>>, populated |-> FALSE, epoch |-> 0]

Previous(r, body) ==
    IF r.pc = "done" /\ r.body = body
    THEN [same |-> TRUE, providers |-> r.resp.providers,
          populated |-> r.found \in {"cache", "cell", "block"}, epoch |-> r.epoch]
    ELSE NoPrevious

\* src, obs, sawMissing, calls and epoch are history: the release the provider
\* list was read from, the last view query, whether a query found no view, the
\* calls made, and the run count on arrival (-1 when a run was in flight).
\* geo and found are history too: what geocodeAddress returned ("none" when it
\* was not called, "null", "coords" or "block"), and which return statement of
\* the last lookupProviders call gave the list ("cache", "cell", "block", "empty").
\* remote is the answer of the Census geocoder to the request's last HTTP call.
IdleRequest ==
    [pc |-> "idle", body |-> [lat |-> Absent, lng |-> Absent, address |-> NoAddress],
     lat |-> Absent, lng |-> Absent, h3 |-> NoHex, block |-> "", call |-> "none",
     providers |-> <<>>, method |-> "", src |-> NoVintage,
     obs |-> NoObservation, sawMissing |-> FALSE, calls |-> NoCalls,
     geo |-> "none", found |-> "none", remote |-> "none", prev |-> NoPrevious,
     epoch |-> 0, resp |-> NoResponse]

\* The request is answered: its locals go, the response stays.
Respond(r, response) ==
    [IdleRequest EXCEPT !.pc = "done", !.body = r.body, !.obs = r.obs,
                        !.sawMissing = r.sawMissing, !.calls = r.calls,
                        !.geo = r.geo, !.found = r.found, !.remote = r.remote,
                        !.prev = r.prev,
                        !.src = r.src, !.epoch = r.epoch, !.resp = response]

BadRequest(message) ==
    [NoResponse EXCEPT !.status = 400, !.lookup_method = "h3", !.error = message]

\* Mutant: a failed geocode is answered as an input error.
CouldNotGeocodeIsError == BadRequest("Could not geocode address")

\* The response when geocodeAddress returns null (lines 43-53).
CouldNotGeocode ==
    [NoResponse EXCEPT !.status = 200, !.success = TRUE, !.lookup_method = "h3",
                       !.error = "Could not geocode address"]

\* An error thrown out of the handler: Hono answers 500.
InternalError ==
    [NoResponse EXCEPT !.status = 500, !.error = "Internal Server Error"]

\* The request arrives; the body is parsed and validated (lines 24-41, 84-95).
Receive ==
    /\ rq.pc \in {"idle", "done"}
    /\ served < MaxRequests
    /\ served' = served + 1
    /\ \E body \in Bodies :
          LET lat == body.lat
              lng == body.lng
              address == body.address
              r == [IdleRequest EXCEPT !.body = [lat |-> lat, lng |-> lng, address |-> address],
                                       !.lat = lat, !.lng = lng,
                                       !.prev = Previous(rq, [lat |-> lat, lng |-> lng,
                                                              address |-> address]),
                                       !.epoch = IF Quiet THEN runs ELSE -1]
          IN  rq' = IF ~SchemaOk(lat, lng)
                    THEN Respond(r, BadRequest("Invalid request body"))
                    ELSE IF MissingCoordinates(lat, lng) /\ Truthy(address)
                    THEN [r EXCEPT !.pc = "geocodeAddress"]
                    ELSE IF MissingCoordinates(lat, lng)
                    THEN Respond(r, BadRequest("Either lat/lng or address is required"))
                    ELSE [r EXCEPT !.pc = "lookupH3", !.call = "first",
                                   !.h3 = getH3Index(lat.v, lng.v)]
    /\ UNCHANGED <<storeVars, pipelineVars, acquireVars, geocodeCache, lookupCache, ingestVars, timeVars, indexerVars, enrichVars>>

\* geocodeAddress(address): the cached entry if it has coordinates, else the
\* Census one-line address geocoder (which may fail, or match without a block),
\* written through to geocode_cache.
GeocodeAddress ==
    /\ rq.pc = "geocodeAddress"
    /\ LET address == rq.body.address.s
           cached == geocodeCache[Normalize(address)]
           adopt(lat, lng, geoid, remote) ==
               LET r == [rq EXCEPT !.lat = Num(lat), !.lng = Num(lng),
                                  !.calls.geocoder = @ + remote,
                                  !.h3 = getH3Index(lat, lng), !.pc = "lookupH3"]
               IN  IF geoid # ""
                   THEN [r EXCEPT !.call = "direct", !.block = geoid, !.geo = "block"]
                   ELSE [r EXCEPT !.call = "first", !.geo = "coords"]
       IN  IF cached.cached /\ cached.lat # 0 /\ cached.lng # 0
           THEN /\ rq' = adopt(cached.lat, cached.lng, cached.block_geoid, 0)
                /\ UNCHANGED geocodeCache
           ELSE \E answer \in GeocoderFailures \cup {"match", "matchWithoutBlock"} :
                   LET m == AddressMatch(address)
                       geoid == IF answer = "match" THEN BlockAt(m.lat, m.lng) ELSE ""
                       called == [rq EXCEPT !.calls.geocoder = @ + 1, !.remote = answer]
                   IN  IF Fetch(answer) = "throw"
                       THEN /\ rq' = Respond(called, InternalError)
                            /\ UNCHANGED geocodeCache
                       ELSE IF Fetch(answer) = "null"
                       THEN /\ rq' = Respond([called EXCEPT !.geo = "null"], CouldNotGeocode)
                            /\ UNCHANGED geocodeCache
                       ELSE /\ geocodeCache' =
                                  InsertGeocode(geocodeCache, address, m.lat, m.lng,
                                                geoid, "address")
                            /\ rq' = [adopt(m.lat, m.lng, geoid, 1) EXCEPT
                                         !.remote = answer]
    /\ UNCHANGED <<storeVars, pipelineVars, acquireVars, lookupCache, served, ingestVars, timeVars, indexerVars, enrichVars>>

\* Mutant: an empty list counts as found, so it is cached and returned.
FoundAlways(providers) == TRUE

\* providers.length > 0
Found(providers) == Len(providers) > 0

\* Mutants: a return statement of lookupProviders with the other method tag.
CachedResultByBlock(cached) ==
    [providers |-> cached, method |-> "census_geocoder", found |-> "cache"]

GeoidResultAsCell(providers) ==
    [providers |-> providers, method |-> "h3", found |-> "block"]

EmptyResultByBlock == [providers |-> <<>>, method |-> "census_geocoder", found |-> "empty"]

\* The four return statements of lookupProviders.
CachedResult(cached) == [providers |-> cached, method |-> "h3", found |-> "cache"]

H3Result(providers) == [providers |-> providers, method |-> "h3", found |-> "cell"]

GeoidResult(providers) ==
    [providers |-> providers, method |-> "census_geocoder", found |-> "block"]

EmptyResult == [providers |-> <<>>, method |-> "h3", found |-> "empty"]

\* The route takes providers and method from the result.
Take(r, result) ==
    [r EXCEPT !.providers = result.providers, !.method = result.method,
              !.found = result.found]

\* What the route does with the result of lookupProviders.
AfterLookup(r) ==
    IF r.call = "first" /\ r.providers = <<>>
    THEN [r EXCEPT !.pc = "censusFallback"]
    ELSE [r EXCEPT !.pc = "selectVintage"]

Observe(q, key) ==
    LET Matches(x) == IF q = "cell" THEN x.h3 = key ELSE x.geoid = key IN
    [q |-> q, missing |-> ~blockAvailability.exists,
     got |-> { x \in blockAvailability.rows : Matches(x) },
     want |-> { x \in CompleteAggregate(blockAvailability.from,
                                        blockAvailability.built) : Matches(x) },
     built |-> blockAvailability.built]

\* lookupProviders up to its first query: the LRU cache, then queryByH3.
LookupH3 ==
    /\ rq.pc = "lookupH3"
    /\ LET got == CacheGet(lookupCache, rq.h3)
           r == [rq EXCEPT !.calls.cache = @ + 1]
       IN  IF got.hit
           THEN /\ lookupCache' = got.cache
                /\ rq' = AfterLookup(Take([r EXCEPT !.src = got.entry.built],
                                           CachedResult(got.entry.value)))
           ELSE LET q == [r EXCEPT !.calls.store = @ + 1,
                                   !.obs = Observe("cell", rq.h3)]
                IN  IF ~blockAvailability.exists
                    THEN /\ rq' = Respond([q EXCEPT !.sawMissing = TRUE], InternalError)
                         /\ UNCHANGED lookupCache
                    ELSE \E providers \in queryByH3(blockAvailability.rows, rq.h3) :
                            IF Found(providers)
                            THEN /\ lookupCache' = CacheSet(lookupCache, rq.h3, providers,
                                                            blockAvailability.built)
                                 /\ rq' = AfterLookup(
                                              Take([q EXCEPT !.src = blockAvailability.built],
                                                   H3Result(providers)))
                            ELSE /\ UNCHANGED lookupCache
                                 /\ rq' = IF rq.block # ""
                                          THEN [q EXCEPT !.pc = "lookupGeoid"]
                                          ELSE AfterLookup(Take(q, EmptyResult))
    /\ UNCHANGED <<storeVars, pipelineVars, acquireVars, geocodeCache, served, ingestVars, timeVars, indexerVars, enrichVars>>

\* lookupProviders, the Census GEOID fallback: queryByGeoid.
LookupGeoid ==
    /\ rq.pc = "lookupGeoid"
    /\ LET q == [rq EXCEPT !.calls.store = @ + 1,
                           !.obs = Observe("block", rq.block)]
       IN  IF ~blockAvailability.exists
           THEN /\ rq' = Respond([q EXCEPT !.sawMissing = TRUE], InternalError)
                /\ UNCHANGED lookupCache
           ELSE \E providers \in queryByGeoid(blockAvailability.rows, rq.block) :
                   IF Found(providers)
                   THEN /\ lookupCache' = CacheSet(lookupCache, rq.h3, providers,
                                                   blockAvailability.built)
                        /\ rq' = AfterLookup(
                                     Take([q EXCEPT !.src = blockAvailability.built],
                                          GeoidResult(providers)))
                   ELSE /\ UNCHANGED lookupCache
                        /\ rq' = AfterLookup(Take(q, EmptyResult))
    /\ UNCHANGED <<storeVars, pipelineVars, acquireVars, geocodeCache, served, ingestVars, timeVars, indexerVars, enrichVars>>

\* getCensusBlockGeoid(lat, lng, address): the cached block of the address if
\* any, else the Census coordinates geocoder, written through when an address
\* came with the request; then the second lookupProviders when a block is known.
CensusFallback ==
    /\ rq.pc = "censusFallback"
    /\ LET hasAddress == Truthy(rq.body.address)
           address == rq.body.address.s
           cached == geocodeCache[Normalize(address)]
           continue(r, geoid) ==
               IF geoid # ""
               THEN [r EXCEPT !.pc = "lookupH3", !.call = "fallback", !.block = geoid]
               ELSE [r EXCEPT !.pc = "selectVintage"]
       IN  IF hasAddress /\ cached.cached /\ cached.block_geoid # ""
           THEN /\ rq' = continue(rq, cached.block_geoid)
                /\ UNCHANGED geocodeCache
           ELSE \E sent \in {"non2xx", "timeout", "malformed", "answer"} :
                   LET answer == IF sent # "answer" THEN sent
                                 ELSE IF BlockAt(rq.lat.v, rq.lng.v) = "" THEN "empty"
                                 ELSE "block"
                       geoid == IF Fetch(answer) = "result"
                                THEN BlockAt(rq.lat.v, rq.lng.v) ELSE ""
                       called == [rq EXCEPT !.calls.geocoder = @ + 1,
                                            !.calls.byCoordinates = @ + 1,
                                            !.remote = answer]
                   IN  IF Fetch(answer) = "throw"
                       THEN /\ rq' = Respond(called, InternalError)
                            /\ UNCHANGED geocodeCache
                       ELSE /\ geocodeCache' =
                                  IF hasAddress /\ geoid # ""
                                  THEN InsertGeocode(geocodeCache, address, rq.lat.v,
                                                     rq.lng.v, geoid, "coordinates")
                                  ELSE geocodeCache
                            /\ rq' = continue(called, geoid)
    /\ UNCHANGED <<storeVars, pipelineVars, acquireVars, lookupCache, served, ingestVars, timeVars, indexerVars, enrichVars>>

\* The active vintage is read and the response sent (lines 65-80, 110-126).
SelectVintage ==
    /\ rq.pc = "selectVintage"
    /\ rq' = Respond(rq, [NoResponse EXCEPT
                             !.status = 200, !.success = TRUE,
                             !.providers = rq.providers, !.h3_index = rq.h3,
                             !.data_vintage = ActiveVintage(dataVintages),
                             !.lookup_method = rq.method])
    /\ UNCHANGED <<storeVars, pipelineVars, acquireVars, geocodeCache, lookupCache, served, ingestVars, timeVars, indexerVars, enrichVars>>

\* An entry's time-to-live runs out: lru-cache no longer returns it.
CacheExpire ==
    /\ \E i \in 1..Len(lookupCache) :
          lookupCache' = Without(lookupCache, lookupCache[i].key)
    /\ UNCHANGED <<storeVars, pipelineVars, acquireVars, geocodeCache, rq, served, ingestVars, timeVars, indexerVars, enrichVars>>

ResolverStep ==
    \/ Receive
    \/ GeocodeAddress
    \/ LookupH3
    \/ LookupGeoid
    \/ CensusFallback
    \/ SelectVintage
    \/ CacheExpire

-----------------------------------------------------------------------------
(* File Acquisition: downloadStateData, file by file *)

MaxAcquire == 2     \* pipeline processes started in one behaviour of SpecAcquire

RATE_LIMIT_DELAY_MS == 6500

MVP_STATES == <<"37", "44", "45">>

TECH_FILE_KEYWORDS ==
    {"Copper", "Cable", "FibertothePremises", "GSOSatellite", "NGSOSatellite",
     "UnlicensedFixedWireless", "LicensedFixedWireless", "LicensedByRuleFixedWireless"}

\* The tag of a release in the file names of its listing.
Tag(v) == IF v = 1 THEN "J24" ELSE IF v = 2 THEN "D24" ELSE IF v = 3 THEN "J25" ELSE "D25"

\* A file name, split at its underscores.
\* holds is not a field of FccFileEntry: it says what the file is.
FccFileEntry(id, fips, name, holds, records) ==
    [file_id |-> id, state_fips |-> fips, file_name |-> name, holds |-> holds,
     record_count |-> records]

\* listAvailabilityData/{vintage}: the files of every state, whatever the query.
FileListing(v) ==
    << FccFileEntry(1, "37", <<"bdc", "37", "Cable", "fixed", "broadband", Tag(v)>>,
                    "technology", 2),
       FccFileEntry(2, "44", <<"bdc", "44", "130077", "fixed", "broadband", Tag(v)>>,
                    "provider", 1),
       FccFileEntry(3, "44", <<"bdc", "44", "FibertothePremises", "fixed", "broadband", Tag(v)>>,
                    "technology", 3),
       FccFileEntry(4, "44", <<"bdc", "44", "fixed", "broadband", "summary", "by",
                               "geography", Tag(v)>>,
                    "summary", 1),
       FccFileEntry(5, "44", <<"bdc", "44", "4G", "mobile", "broadband", Tag(v)>>,
                    "mobile", 1),
       FccFileEntry(6, "06", <<"bdc", "06", "Cable", "fixed", "broadband", Tag(v)>>,
                    "technology", 4),
       FccFileEntry(7, "44", <<"bdc", "44", "Cable", "fixed", "broadband", Tag(v)>>,
                    "technology", 2) >>

Range(s) == { s[i] : i \in DOMAIN s }

\* What the listing call may answer for a release: its files, or its files
\* before any per-technology file is published.
Listings(v) ==
    { FileListing(v), SelectSeq(FileListing(v), LAMBDA e : e.holds # "technology") }

\* The directory holds one entry per file that exists. A local copy is
\* shorter than the floor its record count gives (empty or truncated:
\* "partial"), or "complete"; a name without entry is "absent".
EmptyDisk == {}

LocalCopy(d, name) ==
    IF \E c \in d : c.name = name
    THEN (CHOOSE c \in d : c.name = name).state
    ELSE "absent"

\* fs.createWriteStream(outputPath) and what was piped into it
WriteFile(d, name, state) ==
    { c \in d : c.name # name } \cup {[name |-> name, state |-> state]}

\* file_name.includes(part), for a part of two words and for one word
IncludesPair(name, a, b) ==
    \E i \in 1..(Len(name) - 1) : name[i] = a /\ name[i + 1] = b

IncludesWord(name, a) == \E i \in 1..Len(name) : name[i] = a

TwoDigits == {"06", "37", "44", "45"}

\* file_name.match(/^bdc_\d{2}_([^_]+)_fixed_broadband/): the identifier, or none
MatchIdentifier(name) ==
    IF /\ Len(name) >= 5
       /\ name[1] = "bdc" /\ name[2] \in TwoDigits
       /\ name[4] = "fixed" /\ name[5] = "broadband"
    THEN <<name[3]>>
    ELSE <<>>

\* Mutant: every identifier is taken for a technology keyword.
AnyIdentifier(identifier) == TRUE

\* TECH_FILE_KEYWORDS.includes(identifier)
IsTechKeyword(identifier) == identifier \in TECH_FILE_KEYWORDS

filterFixedBroadbandFiles(files, stateFips) ==
    SelectSeq(files, LAMBDA f :
        /\ f.state_fips = stateFips
        /\ IncludesPair(f.file_name, "fixed", "broadband")
        /\ ~IncludesWord(f.file_name, "summary")
        /\ MatchIdentifier(f.file_name) # <<>>
        /\ IsTechKeyword(MatchIdentifier(f.file_name)[1]))

\* Mutant: no local copy is ever found.
NeverExists(d, name) == FALSE

\* fs.existsSync(outputPath)
existsSync(d, name) == LocalCopy(d, name) # "absent"

\* Mutant: the delay follows a download that succeeded only.
SleepOnSuccess(success) == IF success THEN RATE_LIMIT_DELAY_MS ELSE 0

\* await sleep(RATE_LIMIT_DELAY_MS), after the if (success) block
SleepAfter(success) == RATE_LIMIT_DELAY_MS

\* How long one downloadFile call may take, in ms.
DownloadMs == {1, 3000}

NoDownload == [name |-> <<>>, attempts |-> 0, result |-> "none"]

\* catalog and vintages are the body checkAvailableVintages got and the list
\* it returned, kept until line 23 has logged them. The rest from disk0 on is
\* history: the directory as the process found it, the network calls made
\* (file listing, downloadFile), the files selected per state, the names
\* skipped as already there, the last downloadFile call, the time since the
\* last download started and that time as the next download started (-1: none).
IdleAcquire ==
    [pc |-> "idle", at |-> "none", n |-> 0,
     catalog |-> NotAnArray, vintages |-> <<>>, vintage |-> NoVintage,
     allFiles |-> <<>>, state |-> 1, file |-> 1, downloadedFiles |-> <<>>,
     disk0 |-> EmptyDisk, net |-> [listing |-> 0, download |-> 0],
     selected |-> {}, skipped |-> {}, last |-> NoDownload,
     sinceStart |-> -1, gap |-> -1, success |-> FALSE]

\* An error reaches runPipeline().catch, or runPipeline calls process.exit(1).
AcquireExit(a, at) == [a EXCEPT !.pc = "failed", !.at = at]

\* A new runPipeline process is started.
StartAcquire ==
    /\ acq.pc \in {"idle", "returned", "failed"}
    /\ acq.n < MaxAcquire
    /\ acq' = [IdleAcquire EXCEPT !.pc = "checkVintages", !.n = acq.n + 1,
                                  !.disk0 = disk]
    /\ UNCHANGED <<disk, storeVars, pipelineVars, resolverVars, ingestVars, timeVars, indexerVars, enrichVars>>

\* Step 1 of runPipeline (lines 16-23).
AcquireVintages ==
    /\ acq.pc = "checkVintages"
    /\ \E ok \in BOOLEAN, data \in Catalogs :
          LET res == ListAsOfDates(ok, data) IN
          acq' = IF res.threw THEN AcquireExit(acq, "catalog")
                 ELSE IF Len(res.vintages) = 0 THEN AcquireExit(acq, "checkVintages")
                 ELSE [acq EXCEPT !.pc = "fetchFileList", !.catalog = data,
                                  !.vintages = res.vintages,
                                  !.vintage = VintageOf(res.vintages[1])]
    /\ UNCHANGED <<disk, storeVars, pipelineVars, resolverVars, ingestVars, timeVars, indexerVars, enrichVars>>

\* fetchFileList: cachedFileList is null in a new process, so the listing is
\* fetched; a non-2xx response throws.
FetchFileList ==
    /\ acq.pc = "fetchFileList"
    /\ \E ok \in BOOLEAN, listing \in Listings(acq.vintage) :
          LET a == [acq EXCEPT !.net.listing = @ + 1, !.catalog = NotAnArray,
                               !.vintages = <<>>]
          IN  acq' = IF ok THEN [a EXCEPT !.pc = "loop", !.allFiles = listing]
                     ELSE AcquireExit(a, "fetchFileList")
    /\ UNCHANGED <<disk, storeVars, pipelineVars, resolverVars, ingestVars, timeVars, indexerVars, enrichVars>>

StateFiles(a) == filterFixedBroadbandFiles(a.allFiles, MVP_STATES[a.state])

\* The two for loops up to the next downloadFile call or the return: a state
\* without files is passed over, a file that exists is pushed and passed over.
NextFile ==
    /\ acq.pc = "loop"
    /\ acq' =
          IF acq.state > Len(MVP_STATES)
          THEN [acq EXCEPT !.pc = "returned"]
          ELSE IF acq.file > Len(StateFiles(acq))
          THEN [acq EXCEPT !.state = @ + 1, !.file = 1]
          ELSE LET f == StateFiles(acq)[acq.file]
                   a == [acq EXCEPT !.selected = @ \cup {[state |-> MVP_STATES[acq.state],
                                                          entry |-> f]}]
               IN  IF existsSync(disk, f.file_name)
                   THEN [a EXCEPT !.downloadedFiles = Append(@, f.file_name),
                                  !.skipped = @ \cup {f.file_name},
                                  !.file = @ + 1]
                   ELSE [a EXCEPT !.pc = "downloadFile"]
    /\ UNCHANGED <<disk, storeVars, pipelineVars, resolverVars, ingestVars, timeVars, indexerVars, enrichVars>>

\* downloadFile, called once for the file: a non-2xx response returns false
\* before the file is opened; an error while the body is piped into the write
\* stream is thrown, through downloadStateData, with the file as far as it
\* was written; else the file is complete and its path is pushed.
DownloadFile ==
    /\ acq.pc = "downloadFile"
    /\ \E outcome \in {"non2xx", "streamError", "saved"}, ms \in DownloadMs :
          LET f == StateFiles(acq)[acq.file]
              a == [acq EXCEPT !.net.download = @ + 1,
                               !.gap = acq.sinceStart, !.sinceStart = ms,
                               !.last = [name |-> f.file_name, attempts |-> 1,
                                         result |-> outcome]]
          IN  IF outcome = "non2xx"
              THEN /\ acq' = [a EXCEPT !.pc = "sleep", !.success = FALSE]
                   /\ UNCHANGED disk
              ELSE IF outcome = "streamError"
              THEN /\ acq' = AcquireExit(a, "downloadFile")
                   /\ disk' = WriteFile(disk, f.file_name, "partial")
              ELSE /\ acq' = [a EXCEPT !.pc = "sleep", !.success = TRUE,
                                       !.downloadedFiles = Append(@, f.file_name)]
                   /\ disk' = WriteFile(disk, f.file_name, "complete")
    /\ UNCHANGED <<storeVars, pipelineVars, resolverVars, ingestVars, timeVars, indexerVars, enrichVars>>

\* Rate limiting between downloads (line 186), then the next file.
Sleep ==
    /\ acq.pc = "sleep"
    /\ acq' = [acq EXCEPT !.sinceStart = @ + SleepAfter(acq.success),
                          !.file = @ + 1, !.pc = "loop"]
    /\ UNCHANGED <<disk, storeVars, pipelineVars, resolverVars, ingestVars, timeVars, indexerVars, enrichVars>>

AcquireStep ==
    \/ StartAcquire
    \/ AcquireVintages
    \/ FetchFileList
    \/ NextFile
    \/ DownloadFile
    \/ Sleep

-----------------------------------------------------------------------------
(* Ingest Transform: importStateData, row by row *)

MaxRows == 3        \* data rows of one extracted CSV file

\* parseInt and the integer column: a number is <<n>>, NaN is <<>>.
NaN == <<>>

\* row.technology || "0"
OrZero(s) == IF s = "" THEN "0" ELSE s

\* parseInt(s, 10)
parseInt(s) ==
    IF s = "50" THEN <<50>> ELSE IF s = "40" THEN <<40>> ELSE IF s = "0" THEN <<0>> ELSE NaN

\* The data rows a CSV file may hold: with or without block id and cell id,
\* with a technology code, none or a word in its place; and a line csv-parse
\* cannot read (a quote inside an unquoted field: quoting "broken").
CsvRows ==
    [block_geoid : {"", "b1"}, h3_res8_id : {NoHex, HexA},
     technology : {"50", "", "abc"}, quoting : {"ok"}]
    \cup {[block_geoid |-> "b1", h3_res8_id |-> HexA, technology |-> "40",
           quoting |-> "broken"]}

CsvFiles == UNION { [1..n -> CsvRows] : n \in 0..MaxRows }

\* csvParse({columns: true, skip_empty_lines: true, relax_column_count: true,
\* trim: true}): the record, or an error on a line it cannot read.
csvParse(row) == IF row.quoting = "broken" THEN "error" ELSE "record"

\* The line the transformer writes for a row.
CsvLine(row) ==
    [block_geoid |-> row.block_geoid, h3_res8_id |-> row.h3_res8_id,
     technology_code |-> parseInt(OrZero(row.technology))]

\* Mutant: rowCount++ before the rows without ids are skipped.
CountEveryRow(valid) == 1

\* rowCount++, reached by the rows that are written only
Counted(valid) == IF valid THEN 1 ELSE 0

\* COPY ... FROM STDIN WITH (FORMAT csv): technology_code is integer NOT NULL,
\* so a line with NaN in it is an error.
CopyAccepts(line) == line.technology_code # NaN

\* sink is what the transformer has written to the COPY stream, table the rows
\* the COPY statement has added to broadband_availability, returned the value
\* importStateData returned (<<>>: none).
IdleImport ==
    [pc |-> "idle", at |-> "none", csv |-> <<>>, next |-> 1, sink |-> <<>>,
     rowCount |-> 0, table |-> <<>>, returned |-> <<>>]

\* importStateData is called on an archive: the CSV is extracted and the COPY
\* statement opened.
StartImport ==
    /\ ing.pc = "idle"
    /\ \E csv \in CsvFiles : ing' = [IdleImport EXCEPT !.pc = "stream", !.csv = csv]
    /\ UNCHANGED <<storeVars, pipelineVars, resolverVars, acquireVars, timeVars, indexerVars, enrichVars>>

\* One row through parser, transformer and COPY stream. An error of the
\* parser or of COPY rejects pipeline(): importStateData throws, and the COPY
\* statement, which failed, has added no row.
TransformRow ==
    /\ ing.pc = "stream"
    /\ ing.next <= Len(ing.csv)
    /\ LET row == ing.csv[ing.next]
           valid == ValidRow([geoid |-> row.block_geoid, h3 |-> row.h3_res8_id])
           counted == [ing EXCEPT !.rowCount = @ + Counted(valid)]
       IN  ing' = IF csvParse(row) = "error"
                  THEN [ing EXCEPT !.pc = "failed", !.at = "parse"]
                  ELSE IF ~valid
                  THEN [counted EXCEPT !.next = @ + 1]
                  ELSE IF ~CopyAccepts(CsvLine(row))
                  THEN [counted EXCEPT !.sink = Append(@, CsvLine(row)),
                                       !.pc = "failed", !.at = "copy"]
                  ELSE [counted EXCEPT !.sink = Append(@, CsvLine(row)),
                                       !.next = @ + 1]
    /\ UNCHANGED <<storeVars, pipelineVars, resolverVars, acquireVars, timeVars, indexerVars, enrichVars>>

\* The parser ends: the COPY statement completes with the lines it got, and
\* importStateData returns rowCount.
FinishImport ==
    /\ ing.pc = "stream"
    /\ ing.next > Len(ing.csv)
    /\ ing' = [ing EXCEPT !.pc = "done", !.table = ing.sink,
                          !.returned = <<ing.rowCount>>]
    /\ UNCHANGED <<storeVars, pipelineVars, resolverVars, acquireVars, timeVars, indexerVars, enrichVars>>

IngestStep ==
    \/ StartImport
    \/ TransformRow
    \/ FinishImport

-----------------------------------------------------------------------------
(* Result Cache over time: new LRUCache({max, ttl}) as lookupProviders uses it *)

MaxEntries == 2     \* max of the cache in SpecCache
MaxLookups == 4     \* lookupProviders calls in one behaviour of SpecCache
MaxTicks == 3       \* times the clock is advanced in one behaviour

DEFAULT_TTL == 86400000

\* The cells looked up: one more than the cache holds.
CacheKeys == { <<i, 0>> : i \in 1..(MaxEntries + 1) }

\* What the two queries of lookupProviders may give for a cell: nothing, or providers.
StoreResults ==
    { <<>>,
      <<enrichRow([pname |-> "Alpha", tech |-> 50, dl |-> 100, ul |-> 100])>> }

\* Mutant: entries never go stale.
NeverStale(c, key) == FALSE

\* lru-cache: an entry is stale once more than ttl has passed since it was set
\* (updateAgeOnGet is off: a hit does not renew it).
isStale(c, key) == c.now - c.start[key] > DEFAULT_TTL

\* last is history of the last lookupProviders call: its key, whether
\* lookupCache.get returned a value and how old the value was, the keys in the
\* cache before the call with the number of the call that last used each, and
\* the keys that left the cache in lookupCache.set.
NoLookup ==
    [key |-> NoHex, hit |-> FALSE, age |-> 0, before |-> {},
     used |-> [k \in CacheKeys |-> 0], evicted |-> {}]

\* now is the time in ms, start the time each key was last set, used the
\* number of the call that last got or set each key (history).
IdleClock ==
    [now |-> 0, ticks |-> 0, n |-> 0, start |-> [k \in CacheKeys |-> 0],
     used |-> [k \in CacheKeys |-> 0], last |-> NoLookup]

CachedKeys(cache) == { cache[i].key : i \in 1..Len(cache) }

\* lookupProviders on a cell, the queries left to StoreResults:
\* lookupCache.get(h3Index), which drops a stale entry and returns nothing for
\* it; on no value the queries, and lookupCache.set when providers were found.
LookupCached ==
    /\ clock.n < MaxLookups
    /\ \E key \in CacheKeys, providers \in StoreResults :
          LET live == IF CacheHas(lookupCache, key) /\ isStale(clock, key)
                      THEN Without(lookupCache, key)
                      ELSE lookupCache
              got == CacheGet(live, key)
              c == [clock EXCEPT !.n = @ + 1, !.used[key] = clock.n + 1,
                                 !.last = [NoLookup EXCEPT
                                              !.key = key,
                                              !.before = CachedKeys(lookupCache),
                                              !.used = clock.used]]
          IN  IF got.hit
              THEN /\ lookupCache' = got.cache
                   /\ clock' = [c EXCEPT !.last.hit = TRUE,
                                         !.last.age = clock.now - clock.start[key]]
              ELSE IF Found(providers)
              THEN /\ lookupCache' = CacheSetMax(live, key, providers, NoVintage, MaxEntries)
                   /\ clock' = [c EXCEPT !.start[key] = clock.now,
                                         !.last.evicted =
                                             CachedKeys(live) \ CachedKeys(lookupCache')]
              ELSE /\ lookupCache' = live
                   /\ clock' = [c EXCEPT !.used[key] = clock.used[key]]
    /\ UNCHANGED <<storeVars, pipelineVars, geocodeCache, rq, served, acquireVars, ingestVars, indexerVars, enrichVars>>

\* Time passes: a millisecond, or the time-to-live.
Advance ==
    /\ clock.ticks < MaxTicks
    /\ \E dt \in {1, DEFAULT_TTL} :
          clock' = [clock EXCEPT !.now = @ + dt, !.ticks = @ + 1]
    /\ UNCHANGED <<storeVars, pipelineVars, resolverVars, acquireVars, ingestVars, indexerVars, enrichVars>>

CacheStep ==
    \/ LookupCached
    \/ Advance

-----------------------------------------------------------------------------
(* Spatial Indexer: getH3Index as the route calls it *)

\* Coordinates on both sides of cell borders, and what a client may send as
\* a resolution next to them.
IndexLats == {7, 8, 15, 16}
IndexLngs == {7, 8}
ResolutionInputs == {Absent, Num(7), Num(16)}

IndexBodies ==
    [lat : { Num(x) : x \in IndexLats }, lng : { Num(x) : x \in IndexLngs },
     address : {NoAddress}, resolution : ResolutionInputs]

\* lookupSchema.safeParse(body).data: z.object keeps the keys of the schema.
ParsedData(body) == [lat |-> body.lat, lng |-> body.lng, address |-> body.address]

NoIndexCall == [called |-> FALSE, body |-> <<>>, cell |-> NoHex]

IdleIndexer == [cur |-> NoIndexCall, prev |-> NoIndexCall]

\* A request with coordinates: the body is parsed and getH3Index called on
\* lat and lng (lines 24-41, 95).
IndexCoordinates ==
    /\ \E body \in IndexBodies :
          LET data == ParsedData(body) IN
          idx' = [cur |-> [called |-> TRUE, body |-> body,
                           cell |-> getH3Index(data.lat.v, data.lng.v)],
                  prev |-> idx.cur]
    /\ UNCHANGED <<storeVars, pipelineVars, resolverVars, acquireVars, ingestVars, timeVars, enrichVars>>

-----------------------------------------------------------------------------
(* Speed tiers: result.rows.map(enrichRow) *)

\* Download speeds in Mbps a query row may carry: the thresholds, their
\* neighbours and values in between.
SpeedInputs == {0, 10, 24, 25, 26, 50, 99, 100, 101, 300, 499, 500, 501, 750, 999,
                1000, 1001, 5000}

NoEnrichment == [called |-> FALSE, row |-> <<>>, provider |-> <<>>]

IdleEnrich == [cur |-> NoEnrichment, prev |-> NoEnrichment]

\* A row of a query result becomes a provider of the response.
EnrichQueryRow ==
    /\ \E dl \in SpeedInputs :
          LET row == [pname |-> "Alpha", tech |-> 50, dl |-> dl, ul |-> 10] IN
          enr' = [cur |-> [called |-> TRUE, row |-> row, provider |-> enrichRow(row)],
                  prev |-> enr.cur]
    /\ UNCHANGED <<storeVars, pipelineVars, resolverVars, acquireVars, ingestVars, timeVars, indexerVars>>

-----------------------------------------------------------------------------

vars == <<dataVintages, broadbandAvailability, blockAvailability, geocodeCache,
          lookupCache, pl, pre, runs, rq, served, disk, acq, ing, clock, idx, enr>>

\* The database after the migrations, before any pipeline run.
EmptyStore ==
    /\ dataVintages = [v \in Vintages |-> NoRow]
    /\ broadbandAvailability = NoRows
    /\ blockAvailability = InitialView
    /\ geocodeCache = [a \in AddressKeys |-> NoEntry]
    /\ pre = [flags |-> [v \in Vintages |-> FALSE], active |-> NoVintage,
              view |-> InitialView, table |-> NoRows,
              rows |-> {}]

\* No pipeline process has run: the download directory is empty, no archive
\* has been imported.
NoAcquisition ==
    /\ disk = EmptyDisk
    /\ acq = IdleAcquire
    /\ ing = IdleImport
    /\ clock = IdleClock
    /\ idx = IdleIndexer
    /\ enr = IdleEnrich

\* The API server has not been started (serve() has not run): no request
\* arrives.
NoServer == [pc |-> "off"]

Init ==
    /\ EmptyStore
    /\ lookupCache = <<>>
    /\ pl = IdlePipeline
    /\ runs = 0
    /\ rq = NoServer
    /\ served = 0
    /\ NoAcquisition

\* Pipeline and resume runs one after another, no request in flight.
Next == PipelineStep

Spec == Init /\ [][Next]_vars

\* The database once release 1 has been imported and activated by a complete
\* run, and a later run has imported release 2 and stopped before step 4
\* (a state Spec reaches: ServingStoreReached). One more run may start.
ServingRows ==
    /\ broadbandAvailability = [k \in Vintages \X Files |-> 1]
    /\ dataVintages =
          [v \in Vintages |->
              IF v = 1
              THEN [created |-> 1, is_active |-> TRUE,
                    record_count |-> <<CountRows(broadbandAvailability, 1)>>]
              ELSE [created |-> v, is_active |-> FALSE, record_count |-> <<>>]]
    /\ blockAvailability =
          [CreateMaterializedView([k \in Vintages \X Files |->
                                      IF k[1] = 1 THEN 1 ELSE 0], 1) EXCEPT
              !.indexes = InitialView.indexes]

ServingStore ==
    /\ ServingRows
    /\ geocodeCache = [a \in AddressKeys |-> NoEntry]
    /\ pre = [flags |-> [v \in Vintages |-> FALSE], active |-> NoVintage,
              view |-> InitialView, table |-> NoRows,
              rows |-> {}]

InitServing ==
    /\ EmptyStore \/ ServingStore
    /\ lookupCache = <<>>
    /\ pl = IdlePipeline
    /\ runs = MaxRuns - 1
    /\ rq = IdleRequest
    /\ served = 0
    /\ NoAcquisition

\* Resolve requests while resume runs activate a release.
NextServing ==
    \/ ResolverStep
    \/ StartFinish
    \/ CountImported
    \/ DeactivateAll
    \/ FinishActivate
    \/ DropView
    \/ CreateView
    \/ CreateIndex
    \/ StatementFails

SpecServing == InitServing /\ [][NextServing]_vars

\* Steps 1 and 2 of pipeline runs one after another, on one download directory.
NextAcquire == AcquireStep

SpecAcquire == Init /\ [][NextAcquire]_vars

\* One importStateData call on one extracted CSV file.
NextIngest == IngestStep

SpecIngest == Init /\ [][NextIngest]_vars

\* lookupProviders calls on the Result Cache as time passes.
NextCache == CacheStep

SpecCache == Init /\ [][NextCache]_vars

\* getH3Index calls one after another.
NextIndexer == IndexCoordinates

SpecIndexer == Init /\ [][NextIndexer]_vars

\* Query rows enriched one after another.
NextEnrich == EnrichQueryRow

SpecEnrich == Init /\ [][NextEnrich]_vars

-----------------------------------------------------------------------------
(* Properties *)

Flags == [v \in Vintages |-> dataVintages[v].is_active]

NumActive == Cardinality(ActiveRows(dataVintages))

\* Spec reaches the store SpecServing starts from.
ServingStoreReached == ServingRows /\ pl.pc = "failed" /\ pl.at = "deactivate"

\* C1: in every reachable state of data_vintages, over any sequence of
\* pipeline and resume runs, at most one row has is_active = true.
C1_AtMostOneActive == NumActive <= 1

\* A complete run has replaced one active release by another.
C1_Witness ==
    /\ pl.pc = "done"
    /\ pre.active # NoVintage
    /\ ActiveVintage(dataVintages) # pre.active
    /\ NumActive = 1

\* C2: when the run found an active release, no state during or after the
\* run has zero or two active rows.
C2_ExactlyOneActive == pre.active # NoVintage => NumActive = 1

\* C3: in every state where release v is active, the Aggregate View exists
\* and was built from v.
C3_ActiveHasView ==
    \A v \in ActiveRows(dataVintages) :
        blockAvailability.exists /\ blockAvailability.built = v

\* C4: a pipeline run that aborted on the catalog, on acquiring no file or on
\* the ingestion of a file has left every is_active flag, the Aggregate View
\* and the release served as the run found them.
C4_NoPartialActivation ==
    (pl.pc = "failed" /\ pl.at \in {"catalog", "checkVintages", "download", "import"})
    => /\ Flags = pre.flags
       /\ blockAvailability = pre.view
       /\ ActiveVintage(dataVintages) = pre.active

\* Ingestion failed on a later file, after rows of the new release were
\* loaded, while an earlier release was active.
C4_Witness ==
    /\ pl.pc = "failed" /\ pl.at = "import"
    /\ pre.active # NoVintage
    /\ \E k \in DOMAIN broadbandAvailability :
          k[1] # pre.active /\ broadbandAvailability[k] # pre.table[k]

\* The run is past ingestion: the loop over zipFiles has ended, or the resume
\* run has counted the release's rows.
IngestionOver ==
    \/ pl.pc \in {"deactivate", "activate", "dropView", "createView", "createIndex"}
    \/ pl.pc = "failed" /\ pl.at = "count"

\* C5: once ingestion has yielded zero rows in total, no row is deactivated or
\* activated and the Aggregate View is neither dropped nor recreated (the run
\* aborts instead), for the pipeline run and for the resume run.
C5_ZeroRowsAborts ==
    (IngestionOver /\ pl.totalRows = 0)
    => /\ Flags = pre.flags
       /\ blockAvailability = pre.view

\* C6, as amended: a by-cell or by-block query that finds the view gets the
\* matching rows of the complete aggregate of the release the view was built
\* from; the only other outcome is that it finds no view.
C6_CompleteOrMissing ==
    rq.obs.q # "none" => (rq.obs.missing \/ rq.obs.got = rq.obs.want)

\* A query got rows of the aggregate a resume run had just rebuilt, while that
\* run was still creating the indexes.
C6_Witness ==
    /\ rq.obs.q = "cell" /\ ~rq.obs.missing
    /\ rq.obs.got # {} /\ rq.obs.got = rq.obs.want
    /\ rq.obs.built # pre.view.built
    /\ pl.pc = "createIndex"

\* C6, as claimed: every by-cell or by-block query sees a complete aggregate,
\* never a dropped one.
C6_NeverDroppedOrPartial ==
    rq.obs.q # "none" => (~rq.obs.missing /\ rq.obs.got = rq.obs.want)

\* C7: a request whose query found no Aggregate View ends in not-found: a
\* success envelope with an empty provider list.
C7_MissingViewIsNotFound ==
    (rq.pc = "done" /\ rq.sawMissing)
    => (rq.resp.status = 200 /\ rq.resp.success /\ rq.resp.providers = <<>>)

\* C8: a provider list returned together with release id V was read from the
\* aggregate of release V; stated for the requests received and answered while
\* no run was in flight and the view was the active release's.
C8_ProvidersOfReturnedVintage ==
    (/\ rq.pc = "done" /\ rq.resp.success /\ rq.resp.providers # <<>>
     /\ rq.resp.data_vintage # NoVintage
     /\ Quiet /\ rq.epoch = runs
     /\ blockAvailability.exists
     /\ blockAvailability.built = ActiveVintage(dataVintages))
    => rq.resp.data_vintage = rq.src

\* C9: whenever the Aggregate View exists, every row of it belongs to the
\* release whose data_vintages row is active.
C9_ViewRowsOfActive ==
    blockAvailability.exists
    => \A r \in blockAvailability.rows : r.data_vintage = ActiveVintage(dataVintages)

NoUsableInput(body) ==
    /\ body.lat.t = "absent" \/ body.lng.t = "absent"
    /\ ~Truthy(body.address)

\* C10: a request with neither a complete lat/lng pair nor an address ends in
\* input-error (400, success = false, no providers) and has made no geocoder
\* call, no cache access and no store query.
C10_NoInputIsInputError ==
    (rq.pc = "done" /\ NoUsableInput(rq.body))
    => /\ rq.resp.status = 400
       /\ ~rq.resp.success
       /\ rq.resp.providers = <<>>
       /\ rq.calls = NoCalls

\* A request with a latitude, no longitude and no address was refused.
C10_Witness ==
    /\ rq.pc = "done"
    /\ rq.body.lat = Num(10) /\ rq.body.lng = Absent /\ rq.body.address = NoAddress
    /\ rq.resp.status = 400
    /\ rq.resp.error = "Either lat/lng or address is required"

\* lat outside [-90, 90], lng outside [-180, 180], or lat not a number.
BadCoordinate(body) ==
    \/ body.lat.t = "string"
    \/ body.lat.t = "number" /\ (body.lat.v < -90 \/ body.lat.v > 90)
    \/ body.lng.t = "string"
    \/ body.lng.t = "number" /\ (body.lng.v < -180 \/ body.lng.v > 180)

\* C11: a request whose lat or lng is out of range or not a number is answered
\* 400 with success = false and has made no geocoder call, no cache access and
\* no store query, with or without an address.
C11_BadCoordinateIsInputError ==
    (rq.pc = "done" /\ BadCoordinate(rq.body))
    => /\ rq.resp.status = 400
       /\ ~rq.resp.success
       /\ rq.resp.providers = <<>>
       /\ rq.calls = NoCalls

\* lat = 100 together with an address was refused.
C11_Witness ==
    /\ rq.pc = "done"
    /\ rq.body.lat = Num(100) /\ rq.body.lng = Num(5) /\ rq.body.address = Str("a1")
    /\ rq.resp.status = 400
    /\ rq.resp.error = "Invalid request body"

\* C12: when geocodeAddress returns no result, the answer is a success envelope
\* with an empty provider list and a note, and no store query was made.
C12_GeocodeFailureIsSuccess ==
    (rq.pc = "done" /\ rq.geo = "null")
    => /\ rq.resp.status = 200
       /\ rq.resp.success
       /\ rq.resp.providers = <<>>
       /\ rq.resp.error # ""
       /\ rq.calls.store = 0

\* An address-only request whose geocode failed was answered.
C12_Witness ==
    /\ rq.pc = "done" /\ rq.geo = "null"
    /\ rq.body.lat = Absent /\ rq.body.lng = Absent /\ rq.body.address = Str("a1")
    /\ rq.calls.geocoder = 1

\* C13: when geocodeAddress returned a block id, the request queried the
\* Aggregate View by that block id (step 5) and made no second geocoder call;
\* stated for the requests that were not answered from the Result Cache.
C13_BlockIdSkipsToBlockQuery ==
    (rq.pc = "done" /\ rq.geo = "block" /\ ~rq.sawMissing /\ rq.found # "cache")
    => /\ rq.obs.q = "block"
       /\ rq.calls.geocoder <= 1

\* C14: a request answered from the Result Cache returns the cached payload
\* with method "h3" and has made no store query and no coordinates geocoder call.
C14_CacheHitIsTerminal ==
    (rq.pc = "done" /\ rq.found = "cache")
    => /\ rq.resp.success
       /\ rq.resp.lookup_method = "h3"
       /\ rq.resp.providers # <<>>
       /\ CacheHas(lookupCache, rq.resp.h3_index)
            => lookupCache[CacheIndex(lookupCache, rq.resp.h3_index)].value
                 = rq.resp.providers
       /\ rq.calls.store = 0
       /\ rq.calls.byCoordinates = 0

\* A second request for a cell was answered from the entry, which is still there.
C14_Witness ==
    /\ rq.pc = "done" /\ rq.found = "cache" /\ served = 2
    /\ CacheHas(lookupCache, rq.resp.h3_index)
    /\ rq.resp.providers # <<>>

\* C15: a lookupProviders call that returns a non-empty list leaves that list
\* in the Result Cache under the request's cell id, as the most recent entry.
C15_FoundIsCached ==
    [][(rq.pc \in {"lookupH3", "lookupGeoid"} /\ rq'.providers # <<>>)
        => /\ lookupCache' # <<>>
           /\ lookupCache'[1].key = rq.h3
           /\ lookupCache'[1].value = rq'.providers]_vars

\* A list found by block is in the cache under the cell id.
C15_Witness ==
    /\ rq.pc = "selectVintage" /\ rq.found = "block"
    /\ lookupCache # <<>>
    /\ lookupCache[1].key = rq.h3 /\ lookupCache[1].value = rq.providers

\* C16: the method tag of a successful response is "census_geocoder" exactly
\* when the request's last query was the by-block query and it returned rows
\* (it is made only after a cell query with no rows); otherwise it is "h3".
C16_MethodTag ==
    (rq.pc = "done" /\ rq.resp.success)
    => rq.resp.lookup_method =
          IF rq.obs.q = "block" /\ ~rq.obs.missing /\ rq.obs.got # {}
          THEN "census_geocoder" ELSE "h3"

\* Found by block after a cell query with no rows.
C16_Witness ==
    /\ rq.pc = "done" /\ rq.resp.success
    /\ rq.resp.lookup_method = "census_geocoder"
    /\ rq.resp.providers # <<>>
    /\ rq.calls.store >= 2

\* C17: a request whose queries of the view all returned no rows ends in
\* not-found: success envelope, empty provider list, method "h3".
C17_NotFound ==
    (rq.pc = "done" /\ rq.calls.store > 0 /\ ~rq.sawMissing /\ rq.obs.got = {})
    => /\ rq.resp.status = 200
       /\ rq.resp.success
       /\ rq.resp.providers = <<>>
       /\ rq.resp.lookup_method = "h3"

\* Address only; the geocoder gave coordinates and no block id, the cell query
\* returned no rows, the coordinates geocoder gave no block id either.
C17_Witness ==
    /\ rq.pc = "done" /\ rq.resp.success /\ rq.resp.providers = <<>>
    /\ rq.body.lat = Absent /\ rq.body.address = Str("a1")
    /\ rq.geo = "coords"
    /\ rq.calls = [geocoder |-> 2, byCoordinates |-> 1, cache |-> 1, store |-> 1]
    /\ rq.resp.lookup_method = "h3"

\* C18, as amended: when the first of two identical calls in sequence left its
\* list in the Result Cache and the second finds the entry (not expired), the
\* second returns the same list and makes no call to the Remote Geocoder.
C18_RepeatFromCache ==
    (rq.pc = "done" /\ rq.prev.same /\ rq.prev.populated /\ rq.found = "cache")
    => /\ rq.resp.providers = rq.prev.providers
       /\ rq.calls.geocoder = 0

\* An address-only request was repeated and answered from both caches.
C18_Witness ==
    /\ rq.pc = "done" /\ rq.prev.same /\ rq.prev.populated /\ rq.found = "cache"
    /\ rq.body.lat = Absent /\ Truthy(rq.body.address)
    /\ rq.resp.providers # <<>>

\* C18, as claimed: two identical calls in sequence, with no pipeline run
\* since the first arrived, return identical result sets, and the second makes
\* no Remote Geocoder call if the first populated the Result Cache.
C18_Idempotent ==
    (rq.pc = "done" /\ rq.prev.same
        /\ Quiet /\ rq.epoch = runs /\ rq.prev.epoch = runs)
    => /\ rq.resp.providers = rq.prev.providers
       /\ rq.prev.populated => rq.calls.geocoder = 0

\* The view rows of a query that belong to one entry of the provider list.
RowsOf(p, rows) ==
    { x \in rows : x.pname = p.provider_name /\ x.tech = p.technology_code }

\* C19: a returned provider list has each (provider, technology) pair at most
\* once and is ordered by non-increasing download speed; a list fresh from
\* the store has one entry per pair of the rows the query matched, with the
\* greatest download and the greatest upload speed of the pair's rows.
C19_GroupedAndOrdered ==
    (rq.pc = "done" /\ rq.resp.success)
    => LET p == rq.resp.providers IN
       /\ \A i, j \in 1..Len(p) :
             (p[i].provider_name = p[j].provider_name
                /\ p[i].technology_code = p[j].technology_code) => i = j
       /\ \A i \in 1..Len(p) - 1 :
             p[i].max_download_speed >= p[i + 1].max_download_speed
       /\ rq.found \in {"cell", "block"}
            => /\ \A i \in 1..Len(p) :
                     /\ RowsOf(p[i], rq.obs.got) # {}
                     /\ p[i].max_download_speed
                          = SetMax({ x.dl : x \in RowsOf(p[i], rq.obs.got) })
                     /\ p[i].max_upload_speed
                          = SetMax({ x.ul : x \in RowsOf(p[i], rq.obs.got) })
               /\ \A x \in rq.obs.got : \E i \in 1..Len(p) : x \in RowsOf(p[i], {x})

\* A list fresh from the store in which one entry stands for two rows of the
\* view with different speeds.
C19_Witness ==
    /\ rq.pc = "done" /\ rq.resp.success /\ rq.found = "cell"
    /\ Len(rq.resp.providers) >= 2
    /\ \E i \in 1..Len(rq.resp.providers) :
          \E x, y \in RowsOf(rq.resp.providers[i], rq.obs.got) : x.dl # y.dl

C21_GeocoderFailureIsSoft ==
    rq.remote \in GeocoderFailures
    => /\ rq.pc \in {"selectVintage", "done"}
       /\ rq.pc = "done"
          => (rq.resp.status = 200 /\ rq.resp.success /\ rq.resp.providers = <<>>)

\* The by-cell query of an address request found nothing and the coordinates
\* geocoder sent a body that is not the expected JSON: the request was answered.
C21_Witness ==
    /\ rq.pc = "done" /\ rq.remote = "malformed"
    /\ rq.geo = "coords" /\ rq.calls.byCoordinates = 1
    /\ rq.resp.status = 200 /\ rq.resp.providers = <<>>

\* C22: once geocodeAddress or getCensusBlockGeoid (called with an address) has
\* a result from the Census geocoder, geocode_cache holds an entry for the
\* normalized address with the block id of that result, whatever the entry
\* held before.
C22_WriteThrough ==
    (/\ rq.pc # "done"
     /\ rq.remote \in {"match", "matchWithoutBlock", "block"}
     /\ Truthy(rq.body.address))
    => /\ geocodeCache[Normalize(rq.body.address.s)].cached
       /\ geocodeCache[Normalize(rq.body.address.s)].block_geoid = rq.block

\* C24: a pipeline run whose catalog call fails goes no further than
\* checkAvailableVintages: it exits on the error, having acquired no file and
\* with broadband_availability, data_vintages and the Aggregate View as the run
\* found them.
C24_CatalogFailureStopsRun ==
    /\ pl.catalog # "failed"
    /\ (pl.pc = "failed" /\ pl.at = "catalog")
       => /\ pl.zipFiles = <<>>
          /\ broadbandAvailability = pre.table
          /\ { v \in Vintages : Present(dataVintages, v) } = pre.rows
          /\ [v \in Vintages |-> dataVintages[v].is_active] = pre.flags
          /\ blockAvailability = pre.view

\* The catalog call of a run failed while a release imported by an earlier
\* run was active.
C24_Witness ==
    /\ pl.pc = "failed" /\ pl.at = "catalog"
    /\ pre.active # NoVintage
    /\ CountRows(broadbandAvailability, pre.active) > 0

\* The availability entries of the body checkAvailableVintages got.
AvailabilityDates ==
    { i \in DOMAIN acq.catalog.data : acq.catalog.data[i].data_type = "availability" }

\* C23: the list checkAvailableVintages returns holds the as_of_date of every
\* availability entry of the catalog, as often as the catalog has it, and of
\* no challenge entry; it is in descending lexicographic order; and the
\* release the run takes (its first element) is the latest availability
\* release of the catalog.
C23_AvailabilityNewestFirst ==
    acq.pc = "fetchFileList"
    => /\ \A v \in Vintages :
             Cardinality({ i \in DOMAIN acq.vintages : acq.vintages[i] = AsOfDate(v) })
             = Cardinality({ i \in AvailabilityDates :
                                acq.catalog.data[i].as_of_date = AsOfDate(v) })
       /\ \A i, j \in DOMAIN acq.vintages :
             i < j => ~LexLess(acq.vintages[i], acq.vintages[j])
       /\ acq.vintage =
             SetMax({ VintageOf(acq.catalog.data[i].as_of_date) : i \in AvailabilityDates })

\* The catalog listed a challenge entry dated after the only availability
\* release, and the older of two availability releases first.
C23_Witness ==
    /\ acq.pc = "fetchFileList"
    /\ Len(acq.catalog.data) = 2
    /\ acq.catalog.data[1].data_type = "availability"
    /\ acq.catalog.data[2].data_type = "challenge"
    /\ LexLess(acq.catalog.data[1].as_of_date, acq.catalog.data[2].as_of_date)
    /\ acq.vintages = <<acq.catalog.data[1].as_of_date>>

\* The per-technology aggregate files of a region in a listing.
TechnologyFiles(files, fips) ==
    { e \in Range(files) : e.state_fips = fips /\ e.holds = "technology" }

\* C25: every file File Acquisition selects for a requested region (to return
\* its local copy or to download it) is a per-technology aggregate file of that
\* region, and when acquisition returns it has selected every such file of
\* the listing for every requested region.
C25_SelectsTechnologyFiles ==
    /\ \A t \in acq.selected :
          /\ t.entry.state_fips = t.state
          /\ t.entry.holds = "technology"
          /\ t.entry \in Range(acq.allFiles)
    /\ acq.pc = "returned"
       => \A i \in DOMAIN MVP_STATES :
             \A e \in TechnologyFiles(acq.allFiles, MVP_STATES[i]) :
                [state |-> MVP_STATES[i], entry |-> e] \in acq.selected
    /\ \A i \in DOMAIN acq.downloadedFiles :
          \E t \in acq.selected : t.entry.file_name = acq.downloadedFiles[i]

\* Acquisition returned the three per-technology files of states 37 and 44
\* out of a listing that also has a per-provider file, a summary file, a
\* mobile file and a file of another state.
C25_Witness ==
    /\ acq.pc = "returned"
    /\ Len(acq.allFiles) = 7
    /\ Len(acq.downloadedFiles) = 3
    /\ Cardinality(acq.selected) = 3

\* C26: a file is skipped as already acquired only when its local copy is
\* complete: at least as long as the floor its record count gives.
C26_SkipsOnlyCompleteCopies ==
    \A name \in acq.skipped : LocalCopy(disk, name) = "complete"

\* C27: a file is given up only after three failed download attempts.
C27_ThreeAttempts ==
    acq.last.result \in {"non2xx", "streamError"} => acq.last.attempts = 3

\* C28: after a download attempt failed, on the response status or while the
\* body was streamed to disk, there is no file at the target path.
C28_NoPartialFileLeft ==
    acq.last.result \in {"non2xx", "streamError"} => LocalCopy(disk, acq.last.name) = "absent"

\* C29: when a download starts after another download of the same run,
\* at least RATE_LIMIT_DELAY_MS have passed since that one started.
C29_DelayBetweenStarts ==
    acq.gap # -1 => acq.gap >= RATE_LIMIT_DELAY_MS

\* A download started in state 44 after a download in state 37 had failed.
C29_Witness ==
    /\ acq.gap >= RATE_LIMIT_DELAY_MS
    /\ acq.last.result = "saved"
    /\ acq.state = 2
    /\ Len(acq.downloadedFiles) = 1

TargetNames(a) ==
    { e.file_name :
        e \in UNION { TechnologyFiles(a.allFiles, MVP_STATES[i]) : i \in DOMAIN MVP_STATES } }

\* The listing has target files, and the process found a complete local copy
\* of each of them.
AllTargetsAcquired ==
    /\ acq.pc \in {"loop", "downloadFile", "sleep", "returned"}
    /\ TargetNames(acq) # {}
    /\ \A name \in TargetNames(acq) : LocalCopy(acq.disk0, name) = "complete"

\* C30, as amended: a run that finds a complete local copy of every target
\* file makes one listing call and no download call, and returns the paths of
\* all target files.
C30_ResumeWithoutDownloads ==
    AllTargetsAcquired
    => /\ acq.net.listing = 1
       /\ acq.net.download = 0
       /\ acq.pc = "returned"
          => /\ Range(acq.downloadedFiles) = TargetNames(acq)
             /\ Len(acq.downloadedFiles) = Cardinality(TargetNames(acq))

\* A second run returned the three files the first run had downloaded.
C30_Witness ==
    /\ AllTargetsAcquired
    /\ acq.pc = "returned"
    /\ Len(acq.downloadedFiles) = 3
    /\ acq.net.download = 0

\* C30, as claimed: such a run makes no network call.
C30_ZeroNetworkCalls ==
    AllTargetsAcquired => acq.net.listing + acq.net.download = 0

\* C31: a download that fails does not end the run, and the run returns
\* exactly the selected files it holds a complete copy of.
C31_FailedDownloadIsNotFatal ==
    /\ acq.last.result \in {"non2xx", "streamError"} => acq.pc # "failed"
    /\ acq.pc = "returned"
       => Range(acq.downloadedFiles) =
             { e.entry.file_name : e \in { x \in acq.selected :
                   LocalCopy(disk, x.entry.file_name) = "complete" } }

\* A row that has a block id or a cell id.
HasAnId(row) == row.block_geoid # "" \/ row.h3_res8_id # NoHex

\* C32: of the rows read so far, exactly those with a block id or a cell id
\* have been written to the COPY stream, in their order; rowCount is the number
\* of lines written, and the count returned is the number of rows loaded.
C32_DropsRowsWithoutIds ==
    LET read == SelectSeq(SubSeq(ing.csv, 1, ing.next - 1), HasAnId) IN
    /\ ing.pc \in {"stream", "done"}
       => /\ Len(ing.sink) = Len(read)
          /\ \A i \in 1..Len(read) :
                /\ ing.sink[i].block_geoid = read[i].block_geoid
                /\ ing.sink[i].h3_res8_id = read[i].h3_res8_id
    /\ ing.rowCount = Len(ing.sink)
    /\ ing.pc = "done" => ing.returned = <<Len(ing.table)>>

\* An import returned after it had dropped a row without ids between two rows
\* it wrote.
C32_Witness ==
    /\ ing.pc = "done"
    /\ Len(ing.csv) = 3
    /\ HasAnId(ing.csv[1]) /\ ~HasAnId(ing.csv[2]) /\ HasAnId(ing.csv[3])
    /\ ing.returned = <<2>>

\* A row the parser reads, with an id and a technology code that is a number
\* or left out.
GoodRow(row) == row.quoting = "ok" /\ HasAnId(row) /\ row.technology \in {"50", "40", "0", ""}

\* C33: when an import has ended, by returning or on a bad row, every good
\* row of the file is in broadband_availability.
C33_BadRowDoesNotAbort ==
    ing.pc \in {"done", "failed"}
    => Len(ing.table) = Len(SelectSeq(ing.csv, GoodRow))

\* C34: a step of finishPipeline never changes broadband_availability and
\* never is a step of catalog, download or import; and when the process
\* completes, the release it was given is the only active one and the view
\* exists, holds the aggregate of that release's rows, and has its indexes.
C34_ResumeStepsOnly ==
    [][pl.kind = "finish"
       => /\ broadbandAvailability' = broadbandAvailability
          /\ pl'.pc \in {"count", "deactivate", "activate", "dropView", "createView",
                         "createIndex", "done", "failed"}
          /\ pl'.pc = "done"
             => /\ ActiveRows(dataVintages') = {pl.vintage}
                /\ blockAvailability'.exists
                /\ blockAvailability'.rows =
                      SelectAggregate(broadbandAvailability, pl.vintage)
                /\ blockAvailability'.indexes = Range(IndexNames)]_vars

\* A resume run for a release other than the one active when it started is at
\* its last statement: it has deactivated, activated, dropped and recreated.
C34_Witness ==
    /\ pl.kind = "finish"
    /\ pl.pc = "createIndex" /\ pl.indexed = 2
    /\ pre.active \notin {NoVintage, pl.vintage}
    /\ ActiveRows(dataVintages) = {pl.vintage}
    /\ blockAvailability.rows # {}
    /\ broadbandAvailability = pre.table

\* The residential or mixed-use rows of broadband_availability, as the view's
\* CREATE statement read it, for the release the view was built for.
AggregatedRows ==
    { t.row : t \in { x \in TableRows(blockAvailability.from) :
                        /\ x.data_vintage = blockAvailability.built
                        /\ x.row.brc \in {"R", "X"} } }

SameTriple(a, b) == a.h3 = b.h3 /\ a.pid = b.pid /\ a.tech = b.tech

\* C35: for the rows the view was built from that share cell id, provider id
\* and technology code, the view holds exactly one row, with the greatest
\* download speed, the greatest upload speed and the OR of the low-latency
\* flags of those rows.
C35_OneRowPerTriple ==
    blockAvailability.exists
    => \A r \in AggregatedRows :
          LET peers == { x \in AggregatedRows : SameTriple(x, r) }
              hits == { g \in blockAvailability.rows : SameTriple(g, r) }
          IN  /\ Cardinality(hits) = 1
              /\ \A g \in hits :
                    /\ g.dl = SetMax({ x.dl : x \in peers })
                    /\ g.ul = SetMax({ x.ul : x \in peers })
                    /\ g.ll = (\E x \in peers : x.ll)

\* C36: the cache never holds more than its max of entries; a key leaves it in
\* a set only when the cache was full, one key at a time, and it is the key
\* whose last use is the oldest; and a value returned as a hit was set at
\* most the time-to-live ago.
C36_BoundedLruTtl ==
    /\ Len(lookupCache) <= MaxEntries
    /\ clock.last.evicted # {}
       => /\ Cardinality(clock.last.before) = MaxEntries
          /\ Cardinality(clock.last.evicted) = 1
          /\ \A k \in clock.last.evicted, j \in clock.last.before :
                clock.last.used[k] <= clock.last.used[j]
    /\ clock.last.hit => clock.last.age <= DEFAULT_TTL

\* A key was evicted from the full cache by the set of another key, after a
\* lookup of a key whose entry had outlived the time-to-live was a miss.
C36_Witness ==
    /\ clock.last.evicted # {}
    /\ clock.now > DEFAULT_TTL
    /\ \E k \in CacheKeys : clock.start[k] > DEFAULT_TTL

\* The coordinates of a call lie in the square that is the cell.
InCell(call, cell) ==
    /\ cell[1] * 8 <= call.body.lat.v /\ call.body.lat.v < cell[1] * 8 + 8
    /\ cell[2] * 8 <= call.body.lng.v /\ call.body.lng.v < cell[2] * 8 + 8

TierRank(t) ==
    IF t = "Basic" THEN 1 ELSE IF t = "Good" THEN 2 ELSE IF t = "Fast" THEN 3
    ELSE IF t = "Very Fast" THEN 4 ELSE 5

\* C38: a provider carries the download speed of its row and the tier of
\* that speed: Basic below 25, Good from 25, Fast from 100, Very Fast from 500,
\* Gigabit+ from 1000; and of two providers the faster has no lower tier.
C38_SpeedTierOfDownload ==
    /\ enr.cur.called
       => LET d == enr.cur.row.dl
              t == enr.cur.provider.speed_tier
          IN  /\ enr.cur.provider.max_download_speed = d
              /\ d < 25 <=> t = "Basic"
              /\ (25 <= d /\ d < 100) <=> t = "Good"
              /\ (100 <= d /\ d < 500) <=> t = "Fast"
              /\ (500 <= d /\ d < 1000) <=> t = "Very Fast"
              /\ d >= 1000 <=> t = "Gigabit+"
    /\ (enr.prev.called /\ enr.prev.row.dl <= enr.cur.row.dl)
       => TierRank(enr.prev.provider.speed_tier) <= TierRank(enr.cur.provider.speed_tier)

\* A row of 499 Mbps was enriched as Fast, then a row of 500 Mbps as Very Fast.
C38_Witness ==
    /\ enr.prev.called
    /\ enr.prev.row.dl = 499 /\ enr.prev.provider.speed_tier = "Fast"
    /\ enr.cur.row.dl = 500 /\ enr.cur.provider.speed_tier = "Very Fast"

\* C39: no entry of the Result Cache holds an empty list; and when the
\* request answered just before gave the same coordinates and got no provider,
\* a request that reaches lookupProviders queries the view.
C39_NoEmptyListCached ==
    /\ \A i \in 1..Len(lookupCache) : Len(lookupCache[i].value) > 0
    /\ (/\ rq.body.lat.t = "number" /\ rq.body.lng.t = "number"
        /\ rq.prev.same /\ rq.prev.providers = <<>>
        /\ rq.calls.cache > 0)
       => rq.calls.store > 0

\* With the view in place and no pipeline step in between, a request with
\* coordinates was answered with no provider, and the same request came again,
\* queried the view again and was answered with no provider.
C39_Witness ==
    /\ rq.pc = "done"
    /\ rq.body.lat.t = "number" /\ rq.body.lng.t = "number"
    /\ rq.prev.same /\ rq.prev.providers = <<>>
    /\ rq.prev.epoch = rq.epoch /\ rq.epoch = runs
    /\ blockAvailability.exists
    /\ rq.resp.status = 200 /\ rq.resp.providers = <<>>
    /\ rq.found = "empty"
    /\ rq.calls.store > 0

\* The run that is rebuilding the view started with release v active and the
\* view built from it and indexed (an earlier run for v went through), and has
\* imported once more each file the table held.
Reimported(v) ==
    /\ pre.active = v
    /\ pre.view.exists /\ pre.view.built = v
    /\ pre.view.indexes = { IndexNames[i] : i \in 1..Len(IndexNames) }
    /\ CountRows(pre.table, v) > 0
    /\ \A f \in Files :
          broadbandAvailability[<<v, f>>]
              = pre.table[<<v, f>>] + (IF pre.table[<<v, f>>] > 0 THEN 1 ELSE 0)

\* The view rebuilt by the second run has the rows it had after the first.
SameViewRows == blockAvailability.rows = pre.view.rows

\* C40: when runPipeline has imported again a release that was imported and
\* active, the view it rebuilds has the rows of the view before the run, and
\* the record_count of the release's data_vintages row is the number of
\* broadband_availability rows of the release.
C40_RerunIsIdempotent ==
    (pl.kind = "run" /\ pl.pc = "createIndex" /\ Reimported(pl.vintage))
    => /\ SameViewRows
       /\ dataVintages[pl.vintage].record_count
              = <<CountRows(broadbandAvailability, pl.vintage)>>

====
